---- MODULE Spec2Model ----
(***************************************************************************)
(* Model of the file worker (fileProcessor): the mediator between the      *)
(* origin-private draft store (OPFS, directory "draft-store") and the      *)
(* user-granted external handle tree registered in IndexedDB.              *)
(*                                                                         *)
(* Strings are sequences of one-character strings, so that splitting on    *)
(* "/", stripping slashes and name validation are computed as the code     *)
(* computes them.  File data is a sequence of bytes.                       *)
(***************************************************************************)
EXTENDS Integers, Sequences, FiniteSets, TLC

\* ------------------------------------------------------------------ bounds
NumTasks == 2
MaxCalls == 2

Tasks == 1..NumTasks

\* ----------------------------------------------------------------- strings
P_f == <<"f">>
P_ra == <<"r", "/", "a">>
P_sra == <<"/", "r", "/", "a">>
P_rn == <<"r", "/", "n">>

Paths == {P_f, P_ra, P_sra, P_rn}

LockPaths == {P_f, P_ra, P_sra}

DraftPaths == {P_f, P_ra, P_rn}

P_r == <<"r">>

MetaPaths == DraftPaths \cup {P_r, P_sra}

P_rb == <<"r", "/", "b">>
P_rd == <<"r", "/", "d">>
P_rdsa == <<"r", "/", "d", "/", "s", "/", "a">>

\* Paths for getHandle: well-formed, with stray slashes, with empty and dot
\* segments, through a file, to a missing node, below an unknown root, and
\* to a file whose name starts with a line feed.
ResolvePaths ==
  {<<>>, <<"/">>, <<"/", "/", "r">>, P_r, <<"/", "r", "/">>, P_ra, P_sra, P_rd,
   <<"r", "/", "d", "/">>, P_rdsa, P_rn, P_f, <<"f", "/", "a">>,
   <<"r", "/", "a", "/", "x">>, <<"r", "/", "/", "a">>, <<"r", "/", ".", "/", "a">>,
   <<"r", "/", ".", ".", "/", "f">>, <<"q", "/", "a">>, <<"r", "/", "\n", "a">>}

Texts == {<<"x">>, <<"y", "x">>}
Binaries == {<<255>>}

\* TextEncoder / file.text(): UTF-8 encoding of a string and decoding of
\* bytes; a byte that is no UTF-8 sequence decodes to U+FFFD ("R").
CharCode(c) ==
  CASE c = "x" -> 120
    [] c = "y" -> 121
    [] c = "z" -> 122
    [] OTHER -> 63

CodeChar(b) ==
  CASE b = 120 -> "x"
    [] b = 121 -> "y"
    [] b = 122 -> "z"
    [] b = 63 -> "?"
    [] OTHER -> "R"

Utf8Encode(s) == [i \in 1..Len(s) |-> CharCode(s[i])]

Utf8Decode(bs) == [i \in 1..Len(bs) |-> CodeChar(bs[i])]

IndexOf(s, c) ==
  IF \E i \in 1..Len(s) : s[i] = c
    THEN CHOOSE i \in 1..Len(s) : s[i] = c /\ \A j \in 1..(i - 1) : s[j] # c
    ELSE 0

RECURSIVE Split(_, _)
Split(s, sep) ==
  IF IndexOf(s, sep) = 0
    THEN <<s>>
    ELSE <<SubSeq(s, 1, IndexOf(s, sep) - 1)>>
           \o Split(SubSeq(s, IndexOf(s, sep) + 1, Len(s)), sep)

RECURSIVE Join(_, _)
Join(parts, sep) ==
  IF Len(parts) = 0 THEN <<>>
  ELSE IF Len(parts) = 1 THEN parts[1]
  ELSE parts[1] \o <<sep>> \o Join(Tail(parts), sep)

Pop(parts) == SubSeq(parts, 1, Len(parts) - 1)

Last(parts) == parts[Len(parts)]

LineTerminators == {"\n", "\r"}

\* replaceAll(/((?:^\/)|(?:\/$))/gm, ""): a slash at the start or at the end
\* of a line is dropped; with the m flag the lines of the string are what
\* its line terminators delimit.
Stripped(s, i) ==
  /\ s[i] = "/"
  /\ \/ i = 1
     \/ i = Len(s)
     \/ s[i - 1] \in LineTerminators
     \/ s[i + 1] \in LineTerminators

RECURSIVE StripFrom(_, _)
StripFrom(s, i) ==
  IF i > Len(s) THEN <<>>
  ELSE IF Stripped(s, i) THEN StripFrom(s, i + 1)
  ELSE <<s[i]>> \o StripFrom(s, i + 1)

StripSlashes(s) == StripFrom(s, 1)

pathToSegments(path) == Split(StripSlashes(path), "/")

\* ------------------------------------------------------------------ stores
\* A store maps node paths (sequences of names) to nodes.  In the draft
\* store the node <<>> is the directory DRAFT_NAME itself; in the external
\* store the first name is the name of the granted root handle.
DirNode == [kind |-> "directory", data |-> <<>>]

FileNode(bs) == [kind |-> "file", data |-> bs]

Has(store, p) == p \in DOMAIN store

IsDir(store, p) == Has(store, p) /\ store[p].kind = "directory"

IsFile(store, p) == Has(store, p) /\ store[p].kind = "file"

IsPrefix(p, q) == Len(p) <= Len(q) /\ SubSeq(q, 1, Len(p)) = p

HasChildren(store, p) == \E q \in DOMAIN store : q # p /\ IsPrefix(p, q)

Put(store, p, node) ==
  [q \in DOMAIN store \cup {p} |-> IF q = p THEN node ELSE store[q]]

RemoveTree_NodeOnly(store, p) == [q \in DOMAIN store \ {p} |-> store[q]]

\* The store without the node at p and without every node below it.
RemoveTree(store, p) ==
  [q \in {x \in DOMAIN store : ~IsPrefix(p, x)} |-> store[q]]

EmptyStore == [q \in {} |-> DirNode]

H_r == [name |-> <<"r">>, kind |-> "directory"]
H_f == [name |-> <<"f">>, kind |-> "file"]

Handles == {H_r, H_f}

\* A handle without a name, and another handle that is also named "r".
H_u == [name |-> <<>>, kind |-> "directory"]
H_rf == [name |-> <<"r">>, kind |-> "file"]

RegistryHandles == {H_r, H_f, H_u, H_rf}

InitData == <<122>>

InitFs ==
  [q \in {<< <<"r">> >>, << <<"r">>, <<"a">> >>, << <<"f">> >>} |->
     IF q = << <<"r">> >> THEN DirNode ELSE FileNode(InitData)]

\* An external tree with a subdirectory.  The one-character string "E"
\* stands for the precomposed letter U+00E9 and "'" for the combining acute
\* accent U+0301, so "E" and "e'" are two file names that are canonically
\* equivalent.
TreeFs ==
  [q \in {<< <<"r">> >>, << <<"r">>, <<"a">> >>, << <<"r">>, <<"b">> >>,
          << <<"r">>, <<"d">> >>, << <<"r">>, <<"d">>, <<"E">> >>,
          << <<"r">>, <<"d">>, <<"e", "'">> >>, << <<"r">>, <<"d">>, <<"s">> >>,
          << <<"r">>, <<"d">>, <<"s">>, <<"a">> >>, << <<"f">> >>} |->
     IF q \in {<< <<"r">> >>, << <<"r">>, <<"d">> >>, << <<"r">>, <<"d">>, <<"s">> >>}
       THEN DirNode ELSE FileNode(InitData)]

\* The tree with one more file in r, named line feed + "a".
ResolveFs ==
  [q \in DOMAIN TreeFs \cup {<< <<"r">>, <<"\n", "a">> >>} |->
     IF q \in DOMAIN TreeFs THEN TreeFs[q] ELSE FileNode(InitData)]

VARIABLES registry, fs, opfs, perm, fileLocks, tasks, last, calls, interface

vars == <<registry, fs, opfs, perm, fileLocks, tasks, last, calls, interface>>

\* ------------------------------------------------------------- path policy
MaxNameLen == 255

InvalidChars == {"<", ">", ":", "\"", "/", "\\", "|", "?", "*", "\t", "\n"}

ToUpper(c) ==
  CASE c = "c" -> "C"
    [] c = "o" -> "O"
    [] c = "n" -> "N"
    [] c = "p" -> "P"
    [] c = "r" -> "R"
    [] c = "a" -> "A"
    [] c = "u" -> "U"
    [] c = "x" -> "X"
    [] c = "l" -> "L"
    [] c = "m" -> "M"
    [] c = "t" -> "T"
    [] OTHER -> c

Upper(s) == [i \in 1..Len(s) |-> ToUpper(s[i])]

Digits19 == {"1", "2", "3", "4", "5", "6", "7", "8", "9"}

ReservedNames ==
  {<<"C", "O", "N">>, <<"P", "R", "N">>, <<"A", "U", "X">>, <<"N", "U", "L">>}
    \cup {<<"C", "O", "M", d>> : d \in Digits19}
    \cup {<<"L", "P", "T", d>> : d \in Digits19}

validateDirectoryName_CaseSensitive(name) ==
  IF Len(name) = 0 \/ Len(name) > MaxNameLen \/ name = <<".">> \/ name = <<".", ".">>
    THEN "Name must be between 1 and 255 characters"
  ELSE IF \E i \in 1..Len(name) : name[i] \in InvalidChars
    THEN "Name contains invalid characters"
  ELSE IF name \in ReservedNames
    THEN "Name is reserved"
  ELSE IF name[1] = "." \/ name[Len(name)] = "."
    THEN "Name cannot start or end with a dot"
  ELSE ""

\* The error message of validateDirectoryName, "" when the name is valid.
validateDirectoryName(name) ==
  IF Len(name) = 0 \/ Len(name) > MaxNameLen \/ name = <<".">> \/ name = <<".", ".">>
    THEN "Name must be between 1 and 255 characters"
  ELSE IF \E i \in 1..Len(name) : name[i] \in InvalidChars
    THEN "Name contains invalid characters"
  ELSE IF Upper(name) \in ReservedNames
    THEN "Name is reserved"
  ELSE IF name[1] = "." \/ name[Len(name)] = "."
    THEN "Name cannot start or end with a dot"
  ELSE ""

\* Names the file system itself refuses (getDirectoryHandle / getFileHandle /
\* removeEntry reject them with a TypeError).
NameOk(name) ==
  /\ Len(name) > 0
  /\ name # <<".">>
  /\ name # <<".", ".">>
  /\ \A i \in 1..Len(name) : name[i] # "/"

\* ---------------------------------------------------------------- handles
Ok(store, at) == [err |-> "", store |-> store, at |-> at]

Err(msg) == [err |-> msg, store |-> "none", at |-> <<>>]

\* getFileSystemHandle: a directory of that name, else a file of that name.
getFileSystemHandle(which, store, dir, name) ==
  IF NameOk(name) /\ IsDir(store, Append(dir, name)) THEN Ok(which, Append(dir, name))
  ELSE IF NameOk(name) /\ IsFile(store, Append(dir, name)) THEN Ok(which, Append(dir, name))
  ELSE Err("Invalid path")

RECURSIVE Walk(_, _, _, _)
Walk(which, store, cur, segs) ==
  IF Len(segs) = 0 THEN Ok(which, cur)
  ELSE IF ~IsDir(store, cur) THEN Err("Invalid path")
  ELSE LET nxt == getFileSystemHandle(which, store, cur, Head(segs))
       IN IF nxt.err # "" THEN nxt ELSE Walk(which, store, nxt.at, Tail(segs))

\* getDirectoryHandle(DRAFT_NAME, {create: true})
EnsureDraft(store) == IF Has(store, <<>>) THEN store ELSE Put(store, <<>>, DirNode)

\* The draft store after getHandle(path, {type}) ran: the draft root is
\* created unless the root segment check threw first.
DraftAfterGetHandle(store, path, type) ==
  IF type = "opfs" /\ Head(pathToSegments(path)) # <<>> THEN EnsureDraft(store) ELSE store

queryPermission_Granted(pm, h, mode) == "granted"

\* handle.queryPermission({mode}): draft handles are always granted, an
\* external handle has the permission state of its root.
queryPermission(pm, h, mode) ==
  IF h.store = "opfs" THEN "granted" ELSE pm[h.at[1]][mode]

\* getHandle(path, {type, mode}); mode "none" stands for an absent mode.
getHandle(reg, fsS, opfsS, pm, path, type, mode) ==
  LET segs == pathToSegments(path)
      rootPath == Head(segs)
      pathArray == Tail(segs)
      draft == EnsureDraft(opfsS)
      root == IF type = "opfs" THEN getFileSystemHandle("opfs", draft, <<>>, rootPath)
              ELSE IF rootPath \in DOMAIN reg THEN Ok("fs", <<reg[rootPath].name>>)
              ELSE Err("Root handle not found")
      cur == IF root.err # "" THEN root
             ELSE Walk(root.store, IF type = "opfs" THEN draft ELSE fsS, root.at, pathArray)
  IN IF rootPath = <<>> THEN Err("Root path is required")
     ELSE IF cur.err # "" THEN cur
     ELSE IF mode # "none" /\ queryPermission(pm, cur, mode) # "granted"
       THEN Err("Permission denied")
     ELSE cur

\* ------------------------------------------------------------------ state
Granted == [read |-> "granted", readwrite |-> "granted"]

NoHandle == [err |-> "", store |-> "none", at |-> <<>>]

IdleTask ==
  [op |-> "none", pc |-> "idle", path |-> <<>>, target |-> <<>>, data |-> <<>>,
   force |-> FALSE, h |-> NoHandle, src |-> NoHandle, snap |-> <<>>, via |-> "worker"]

NoOut == [content |-> <<>>, isDirty |-> "undefined", name |-> <<>>, kind |-> "none", size |-> 0]

NoCall ==
  [op |-> "none", path |-> <<>>, target |-> <<>>, data |-> <<>>,
   res |-> "none", out |-> NoOut]

\* The registry and the draft store are durable: a worker starts with what
\* earlier sessions left in them.
NoRegistry == [k \in {} |-> H_r]

FullRegistry == [k \in {h.name : h \in Handles} |-> CHOOSE h \in Handles : h.name = k]

DraftData == <<121>>

DraftRootOnly == Put(EmptyStore, <<>>, DirNode)

DraftStaged ==
  Put(Put(Put(Put(DraftRootOnly, << <<"r">> >>, DirNode),
              << <<"r">>, <<"a">> >>, FileNode(DraftData)),
          << <<"r">>, <<"n">> >>, FileNode(DraftData)),
      << <<"f">> >>, FileNode(DraftData))

\* ---------------------------------------------------- the interface slice
\* An open file: a field the payload does not carry is "absent".
OpenFile(name, path, mode) == [name |-> name, path |-> path, mode |-> mode]

Untitled == <<"u", "n", "t", "i", "t", "l", "e", "d">>

\* `untitled:${random}.md`
UntitledPath(random) == Untitled \o <<":">> \o random \o <<".", "m", "d">>

\* openFiles: [{name: "Untitled", path: "untitled:__init.md"}], activeFile
initialStateResolver ==
  [openFiles |-> <<OpenFile("Untitled", UntitledPath(<<"_", "_", "i", "n", "i", "t">>), "absent")>>,
   activeFile |-> UntitledPath(<<"_", "_", "i", "n", "i", "t">>)]

InitDrafts == {EmptyStore, DraftRootOnly, DraftStaged}

\* What edit("r/a", "y") leaves in the draft store.
DraftOne ==
  Put(Put(DraftRootOnly, << <<"r">> >>, DirNode), << <<"r">>, <<"a">> >>, FileNode(DraftData))

Init ==
  /\ registry \in {NoRegistry, FullRegistry}
  /\ fs = InitFs
  /\ opfs \in InitDrafts
  /\ perm = [n \in {h.name : h \in Handles} |-> Granted]
  /\ fileLocks = [k \in {} |-> 0]
  /\ tasks = [t \in Tasks |-> IdleTask]
  /\ last = NoCall
  /\ calls = 0
  /\ interface = initialStateResolver

LockedOps ==
  {"edit", "editBinary", "save", "close", "write", "writeBinary", "remove",
   "createFile", "createDirectory", "copy"}

\* The key withFileLock is called with.
LockKey(task) == IF task.op = "copy" THEN task.target ELSE task.path

InFlight(t) == tasks[t].pc # "idle"

Call(op, path, target, data, force) ==
  [op |-> op, pc |-> "begin", path |-> path, target |-> target, data |-> data,
   force |-> force, h |-> NoHandle, src |-> NoHandle, snap |-> <<>>, via |-> "worker"]

Result(t, task, res, out) ==
  [op |-> task.op, path |-> task.path, target |-> task.target,
   data |-> task.data, res |-> res, out |-> out]

\* A writable stream is open on node at of store which.
Writing(t, which, at) ==
  /\ tasks[t].pc \in {"edit_commit", "write_commit", "save_commit", "copy_commit"}
  /\ tasks[t].h.store = which
  /\ tasks[t].h.at = at

WritableBelow(which, p) ==
  \E t \in Tasks : \E q \in {tasks[t].h.at} : Writing(t, which, q) /\ IsPrefix(p, q)

\* ----------------------------------------------------------- withFileLock
Release_Leak(locks, key, t) == locks

Release(locks, key, t) ==
  IF key \in DOMAIN locks /\ locks[key] = t
    THEN [k \in DOMAIN locks \ {key} |-> locks[k]]
    ELSE locks

Acquire_Never(locks, key, t) == locks

\* fileLocks.set(fileName, {promise: lockPromise, ...})
Acquire(locks, key, t) ==
  [k \in DOMAIN locks \cup {key} |-> IF k = key THEN t ELSE locks[k]]

LockConflict_Never(key) == FALSE

\* fileLocks.has(fileName): the call is rejected before operation() runs.
LockConflict(key) == key \in DOMAIN fileLocks

Rejected(t, task) ==
  /\ last' = Result(t, task, "File lock already acquired", NoOut)
  /\ UNCHANGED <<registry, fs, opfs, perm, interface, fileLocks, tasks>>

\* operation() returned a pending promise: the entry is installed.
Accepted(t, task, pc) ==
  /\ fileLocks' = Acquire(fileLocks, LockKey(task), t)
  /\ tasks' = [tasks EXCEPT ![t] = [task EXCEPT !.pc = pc]]
  /\ UNCHANGED last

\* operation() threw before its first await: the entry is installed and
\* removed again in the same turn.
Thrown(t, task, res) ==
  /\ fileLocks' = Release(Acquire(fileLocks, LockKey(task), t), LockKey(task), t)
  /\ last' = Result(t, task, res, NoOut)
  /\ UNCHANGED tasks

Awaited_Always(task, res) ==
  IF task.via = "moveWebFsEntry" /\ task.op = "copy"
    THEN [IdleTask EXCEPT !.pc = "move_remove", !.path = task.path,
                          !.via = "moveWebFsEntry"]
    ELSE IdleTask

\* What the caller that awaits the call does when it settles: the queryFn
\* of moveWebFsEntry goes on to worker.remove(sourcePath) when worker.copy
\* resolved and to its catch block when it rejected; any other caller is
\* done.
Awaited(task, res) ==
  IF task.via = "moveWebFsEntry" /\ task.op = "copy" /\ res = "success"
    THEN [IdleTask EXCEPT !.pc = "move_remove", !.path = task.path,
                          !.via = "moveWebFsEntry"]
    ELSE IdleTask

\* The operation continues with its next await.
Advance(t, pc, h, src, snap) ==
  /\ tasks' = [tasks EXCEPT ![t] = [@ EXCEPT !.pc = pc, !.h = h, !.src = src, !.snap = snap]]
  /\ UNCHANGED <<fileLocks, last>>

\* The operation's promise settles; the finally block removes the entry
\* if it is still the one this call installed.
Settle(t, res) ==
  /\ fileLocks' = Release(fileLocks, LockKey(tasks[t]), t)
  /\ tasks' = [tasks EXCEPT ![t] = Awaited(tasks[t], res)]
  /\ last' = Result(t, tasks[t], res, NoOut)

\* A call takes the first free task slot.
CanCall(t) ==
  /\ tasks[t].pc = "idle"
  /\ \A u \in Tasks : u < t => tasks[u].pc # "idle"
  /\ calls < MaxCalls

Begin(t, task, pc) ==
  /\ CanCall(t)
  /\ calls' = calls + 1
  /\ IF LockConflict(LockKey(task))
       THEN Rejected(t, task)
       ELSE Accepted(t, task, pc) /\ UNCHANGED <<registry, fs, opfs, perm, interface>>

\* --------------------------------------------------------- stream helpers
ChunkSize == 1

RECURSIVE Chunks(_)
Chunks(bs) ==
  IF Len(bs) <= ChunkSize THEN (IF Len(bs) = 0 THEN <<>> ELSE <<bs>>)
  ELSE <<SubSeq(bs, 1, ChunkSize)>> \o Chunks(SubSeq(bs, ChunkSize + 1, Len(bs)))

\* for await (const chunk of reader) await writer.write(chunk)
RECURSIVE streamToAsyncIterator(_, _)
streamToAsyncIterator(chunks, written) ==
  IF Len(chunks) = 0 THEN written
  ELSE streamToAsyncIterator(Tail(chunks), written \o Head(chunks))

TextOps == {"edit", "write"}

\* What writable.write(content) stores: a string is UTF-8 encoded.
Bytes(task) == IF task.op \in TextOps THEN Utf8Encode(task.data) ELSE task.data

\* ------------------------------------------------------------ open, close
RegistryPut_Evict(reg, key, handle) == [k \in {key} |-> handle]

\* db.put(STORE_NAME, handle, key)
RegistryPut(reg, key, handle) ==
  [k \in DOMAIN reg \cup {key} |-> IF k = key THEN handle ELSE reg[k]]

HandleKey(handle) == IF handle.name # <<>> THEN handle.name ELSE Untitled

\* removeEntry(name, {recursive}) on directory dir of a store: the error,
\* "" when the entry is removed.  busy is the platform's answer when a
\* writable stream is open below a directory that is removed recursively.
removeEntry(which, store, dir, name, recursive, busy) ==
  LET p == Append(dir, name)
  IN IF ~IsDir(store, dir) THEN "TypeError"
     ELSE IF ~NameOk(name) THEN "TypeError"
     ELSE IF ~Has(store, p) THEN "NotFoundError"
     ELSE IF IsDir(store, p) /\ HasChildren(store, p) /\ ~recursive
       THEN "InvalidModificationError"
     ELSE IF IsFile(store, p) /\ WritableBelow(which, p) THEN "NoModificationAllowedError"
     ELSE IF WritableBelow(which, p) /\ busy THEN "NoModificationAllowedError"
     ELSE ""

\* opfsHandle.removeEntry(DRAFT_NAME, {recursive})
removeDraft(store, recursive, busy) ==
  IF ~Has(store, <<>>) THEN "NotFoundError"
  ELSE IF HasChildren(store, <<>>) /\ ~recursive THEN "InvalidModificationError"
  ELSE IF WritableBelow("opfs", <<>>) /\ busy THEN "NoModificationAllowedError"
  ELSE ""

Atomic(op, path, res, out) ==
  /\ calls < MaxCalls
  /\ calls' = calls + 1
  /\ last' = [NoCall EXCEPT !.op = op, !.path = path, !.res = res, !.out = out]

open(handle) ==
  \E busy \in BOOLEAN :
    LET err == removeDraft(opfs, FALSE, busy)
    IN /\ registry' = RegistryPut(registry, HandleKey(handle), handle)
       /\ opfs' = IF err = "" THEN EmptyStore ELSE opfs
       /\ Atomic("open", HandleKey(handle), IF err = "" THEN "success" ELSE err,
                 [NoOut EXCEPT !.name = HandleKey(handle), !.kind = handle.kind])
       /\ UNCHANGED <<fs, perm, interface, fileLocks, tasks>>

closeAll_KeepOpen ==
  LET err == removeDraft(opfs, TRUE, FALSE)
  IN /\ opfs' = IF err = "" /\ ~WritableBelow("opfs", <<>>) THEN EmptyStore ELSE opfs
     /\ Atomic("close", <<>>, IF err = "" THEN "success" ELSE err, NoOut)
     /\ UNCHANGED <<registry, fs, perm, interface, fileLocks, tasks>>

\* close() without a path
closeAll ==
  \E busy \in BOOLEAN :
    LET err == removeDraft(opfs, TRUE, busy)
    IN /\ opfs' = IF err = "" THEN EmptyStore ELSE opfs
       /\ Atomic("close", <<>>, IF err = "" THEN "success" ELSE err, NoOut)
       /\ UNCHANGED <<registry, fs, perm, interface, fileLocks, tasks>>

\* db.getAllKeys(STORE_NAME); the keys are returned as a set, their order is
\* not modelled.
listHandleKeys ==
  /\ Atomic("listHandleKeys", <<>>, "success", [NoOut EXCEPT !.content = DOMAIN registry])
  /\ UNCHANGED <<registry, fs, opfs, perm, interface, fileLocks, tasks>>

close(t, path) ==
  /\ Begin(t, Call("close", path, <<>>, <<>>, FALSE), "close_remove")

closeRemove(t) ==
  /\ tasks[t].pc = "close_remove"
  /\ LET pathParts == Split(tasks[t].path, "/")
         name == Last(pathParts)
         parentPath == IF Join(Pop(pathParts), "/") # <<>> THEN Join(Pop(pathParts), "/")
                       ELSE <<"/">>
         draft == DraftAfterGetHandle(opfs, parentPath, "opfs")
         parentHandle == getHandle(registry, fs, opfs, perm, parentPath, "opfs", "none")
         err == IF parentHandle.err # "" THEN parentHandle.err
                ELSE removeEntry("opfs", draft, parentHandle.at, name, FALSE, TRUE)
     IN /\ opfs' = IF err = "" THEN RemoveTree(draft, Append(parentHandle.at, name)) ELSE draft
        /\ Settle(t, IF err = "" THEN "success" ELSE err)
  /\ UNCHANGED <<registry, fs, perm, interface, calls>>

\* A call of getHandle(path, {type}) without a mode; it returns the handle,
\* here the store and the node it stands for.
getHandleCall(path, type) ==
  LET handle == getHandle(registry, fs, opfs, perm, path, type, "none")
      store == IF type = "opfs" THEN DraftAfterGetHandle(opfs, path, type) ELSE fs
  IN /\ opfs' = DraftAfterGetHandle(opfs, path, type)
     /\ Atomic("getHandle", path, IF handle.err = "" THEN "success" ELSE handle.err,
               IF handle.err = ""
                 THEN [NoOut EXCEPT !.content = handle.at, !.name = type,
                                    !.kind = store[handle.at].kind]
                 ELSE [NoOut EXCEPT !.name = type])
     /\ UNCHANGED <<registry, fs, perm, interface, fileLocks, tasks>>

\* ------------------------------------------------------------- read, meta
\* The entry read/readBinary return; decode is file.text() or
\* file.arrayBuffer().  The draft handle lookup swallows its error.
ReadEntry(path, binary) ==
  LET draft == DraftAfterGetHandle(opfs, path, "opfs")
      opfsHandle == getHandle(registry, fs, opfs, perm, path, "opfs", "read")
      handle == getHandle(registry, fs, opfs, perm, path, "fs", "read")
      file == IF opfsHandle.err = "" /\ IsFile(draft, opfsHandle.at)
                THEN draft[opfsHandle.at] ELSE fs[handle.at]
  IN IF handle.err # "" THEN [res |-> handle.err, out |-> NoOut]
     ELSE IF ~IsFile(fs, handle.at) THEN [res |-> "Cannot read a directory", out |-> NoOut]
     ELSE [res |-> "success",
           out |-> [content |-> IF binary THEN file.data ELSE Utf8Decode(file.data),
                    isDirty |-> IF opfsHandle.err = "" /\ IsFile(draft, opfsHandle.at)
                                  THEN "true" ELSE "undefined",
                    name |-> Last(handle.at),
                    kind |-> "file",
                    size |-> Len(file.data)]]

read(path) ==
  /\ opfs' = DraftAfterGetHandle(opfs, path, "opfs")
  /\ Atomic("read", path, ReadEntry(path, FALSE).res, ReadEntry(path, FALSE).out)
  /\ UNCHANGED <<registry, fs, perm, interface, fileLocks, tasks>>

readBinary(path) ==
  /\ opfs' = DraftAfterGetHandle(opfs, path, "opfs")
  /\ Atomic("readBinary", path, ReadEntry(path, TRUE).res, ReadEntry(path, TRUE).out)
  /\ UNCHANGED <<registry, fs, perm, interface, fileLocks, tasks>>

MetaEntry_Staged(path) ==
  LET opfsHandle == getHandle(registry, fs, opfs, perm, path, "opfs", "read")
      handle == getHandle(registry, fs, opfs, perm, path, "fs", "read")
      file == IF opfsHandle.err = "" THEN EnsureDraft(opfs)[opfsHandle.at] ELSE fs[handle.at]
  IN IF handle.err # "" THEN [res |-> handle.err, out |-> NoOut]
     ELSE [res |-> "success",
           out |-> [content |-> <<>>,
                    isDirty |-> IF opfsHandle.err = "" THEN "true" ELSE "false",
                    name |-> Last(handle.at),
                    kind |-> file.kind,
                    size |-> Len(file.data)]]

\* The entry meta returns: the draft handle lookup swallows its error, name,
\* kind and size are those of the external handle.
MetaEntry(path) ==
  LET opfsHandle == getHandle(registry, fs, opfs, perm, path, "opfs", "read")
      handle == getHandle(registry, fs, opfs, perm, path, "fs", "read")
  IN IF handle.err # "" THEN [res |-> handle.err, out |-> NoOut]
     ELSE [res |-> "success",
           out |-> [content |-> <<>>,
                    isDirty |-> IF opfsHandle.err = "" THEN "true" ELSE "false",
                    name |-> Last(handle.at),
                    kind |-> fs[handle.at].kind,
                    size |-> IF IsFile(fs, handle.at) THEN Len(fs[handle.at].data) ELSE 0]]

meta(path) ==
  /\ opfs' = DraftAfterGetHandle(opfs, path, "opfs")
  /\ Atomic("meta", path, MetaEntry(path).res, MetaEntry(path).out)
  /\ UNCHANGED <<registry, fs, perm, interface, fileLocks, tasks>>

\* ------------------------------------------------------ edit, editBinary
\* getDirectoryHandle(segment, {create: true}) along the segments.
RECURSIVE MakeDirs(_, _, _)
MakeDirs(store, cur, segs) ==
  IF Len(segs) = 0 THEN [err |-> "", store |-> store, at |-> cur]
  ELSE IF ~IsDir(store, cur) THEN [err |-> "NotFoundError", store |-> store, at |-> cur]
  ELSE IF ~NameOk(Head(segs)) THEN [err |-> "TypeError", store |-> store, at |-> cur]
  ELSE IF IsFile(store, Append(cur, Head(segs)))
    THEN [err |-> "TypeMismatchError", store |-> store, at |-> cur]
  ELSE MakeDirs(IF Has(store, Append(cur, Head(segs))) THEN store
                ELSE Put(store, Append(cur, Head(segs)), DirNode),
                Append(cur, Head(segs)), Tail(segs))

\* getFileHandle(name, {create})
MakeFile(store, dir, name, create) ==
  IF ~NameOk(name) THEN [err |-> "TypeError", store |-> store, at |-> dir]
  ELSE IF IsDir(store, Append(dir, name))
    THEN [err |-> "TypeMismatchError", store |-> store, at |-> dir]
  ELSE IF IsFile(store, Append(dir, name))
    THEN [err |-> "", store |-> store, at |-> Append(dir, name)]
  ELSE IF ~create THEN [err |-> "NotFoundError", store |-> store, at |-> dir]
  ELSE [err |-> "", store |-> Put(store, Append(dir, name), FileNode(<<>>)),
        at |-> Append(dir, name)]

edit(t, path, content) ==
  /\ Begin(t, Call("edit", path, <<>>, content, FALSE), "edit_open")

editBinary(t, path, content) ==
  /\ Begin(t, Call("editBinary", path, <<>>, content, FALSE), "edit_open")

\* The draft directories and the draft file are created, a writable opened.
editOpen(t) ==
  /\ tasks[t].pc = "edit_open"
  /\ LET pathSegments == pathToSegments(tasks[t].path)
         dirs == MakeDirs(EnsureDraft(opfs), <<>>, Pop(pathSegments))
         file == IF dirs.err # "" THEN dirs
                 ELSE MakeFile(dirs.store, dirs.at, Last(pathSegments), TRUE)
     IN /\ opfs' = file.store
        /\ IF file.err # "" THEN Settle(t, file.err)
           ELSE Advance(t, "edit_commit", Ok("opfs", file.at), NoHandle, <<>>)
  /\ UNCHANGED <<registry, fs, perm, interface, calls>>

\* The awaits of editOpen one at a time, for the calls that may run between
\* them.  A handle stands for its path: it works again once a node is back
\* at that path.
\* getDirectoryHandle(DRAFT_NAME, {create: true})
editRoot(t) ==
  /\ tasks[t].pc = "edit_open"
  /\ opfs' = EnsureDraft(opfs)
  /\ Advance(t, "edit_dirs", Ok("opfs", <<>>), NoHandle, <<>>)
  /\ UNCHANGED <<registry, fs, perm, interface, calls>>

\* for await (const segment of pathSegments) getDirectoryHandle(segment, {create: true})
editDirs(t) ==
  /\ tasks[t].pc = "edit_dirs"
  /\ LET dirs == MakeDirs(opfs, tasks[t].h.at, Pop(pathToSegments(tasks[t].path)))
     IN /\ opfs' = dirs.store
        /\ IF dirs.err # "" THEN Settle(t, dirs.err)
           ELSE Advance(t, "edit_file", Ok("opfs", dirs.at), NoHandle, <<>>)
  /\ UNCHANGED <<registry, fs, perm, interface, calls>>

\* getFileHandle(pathName, {create: true}); createWritable()
editFile(t) ==
  /\ tasks[t].pc = "edit_file"
  /\ LET file == IF ~IsDir(opfs, tasks[t].h.at)
                   THEN [err |-> "NotFoundError", store |-> opfs, at |-> tasks[t].h.at]
                   ELSE MakeFile(opfs, tasks[t].h.at, Last(pathToSegments(tasks[t].path)), TRUE)
     IN /\ opfs' = file.store
        /\ IF file.err # "" THEN Settle(t, file.err)
           ELSE Advance(t, "edit_commit", Ok("opfs", file.at), NoHandle, <<>>)
  /\ UNCHANGED <<registry, fs, perm, interface, calls>>

editCommit_Append(t) ==
  /\ tasks[t].pc = "edit_commit"
  /\ \/ /\ IsFile(opfs, tasks[t].h.at)
        /\ opfs' = Put(opfs, tasks[t].h.at,
                       FileNode(opfs[tasks[t].h.at].data \o Bytes(tasks[t])))
        /\ Settle(t, "success")
     \/ /\ ~IsFile(opfs, tasks[t].h.at)
        /\ UNCHANGED opfs
        /\ Settle(t, "NotFoundError")
     \/ /\ UNCHANGED opfs
        /\ Settle(t, "QuotaExceededError")
  /\ UNCHANGED <<registry, fs, perm, interface, calls>>

\* writable.write(content); writable.close()
editCommit(t) ==
  /\ tasks[t].pc = "edit_commit"
  /\ \/ /\ IsFile(opfs, tasks[t].h.at)
        /\ opfs' = Put(opfs, tasks[t].h.at, FileNode(Bytes(tasks[t])))
        /\ Settle(t, "success")
     \/ /\ ~IsFile(opfs, tasks[t].h.at)
        /\ UNCHANGED opfs
        /\ Settle(t, "NotFoundError")
     \/ /\ UNCHANGED opfs
        /\ Settle(t, "QuotaExceededError")
  /\ UNCHANGED <<registry, fs, perm, interface, calls>>

\* ---------------------------------------------------- write, writeBinary
write(t, path, content) ==
  /\ Begin(t, Call("write", path, <<>>, content, FALSE), "write_open")

writeBinary(t, path, content) ==
  /\ Begin(t, Call("writeBinary", path, <<>>, content, FALSE), "write_open")

writeOpen(t) ==
  /\ tasks[t].pc = "write_open"
  /\ LET handle == getHandle(registry, fs, opfs, perm, tasks[t].path, "fs", "readwrite")
     IN IF handle.err # "" THEN Settle(t, handle.err)
        ELSE IF ~IsFile(fs, handle.at) THEN Settle(t, "Cannot write to a directory")
        ELSE Advance(t, "write_commit", handle, NoHandle, <<>>)
  /\ UNCHANGED <<registry, fs, opfs, perm, interface, calls>>

writeCommit_Draft(t) ==
  /\ tasks[t].pc = "write_commit"
  /\ \/ /\ opfs' = MakeFile(MakeDirs(EnsureDraft(opfs), <<>>, Pop(tasks[t].h.at)).store,
                              Pop(tasks[t].h.at), Last(tasks[t].h.at), TRUE).store
        /\ Settle(t, "success")
     \/ /\ UNCHANGED opfs
        /\ Settle(t, "QuotaExceededError")
  /\ UNCHANGED <<registry, fs, perm, interface, calls>>

writeCommit(t) ==
  /\ tasks[t].pc = "write_commit"
  /\ \/ /\ IsFile(fs, tasks[t].h.at)
        /\ fs' = Put(fs, tasks[t].h.at, FileNode(Bytes(tasks[t])))
        /\ Settle(t, "success")
     \/ /\ ~IsFile(fs, tasks[t].h.at)
        /\ UNCHANGED fs
        /\ Settle(t, "NotFoundError")
     \/ /\ UNCHANGED fs
        /\ Settle(t, "QuotaExceededError")
  /\ UNCHANGED <<registry, opfs, perm, interface, calls>>

\* ------------------------------------------------------------------ save
FinalPath_Source(task) == task.path

\* const finalPath = targetPath || sourcePath
FinalPath(task) == IF task.target # <<>> THEN task.target ELSE task.path

save(t, sourcePath, targetPath) ==
  /\ CanCall(t)
  /\ calls' = calls + 1
  /\ LET task == Call("save", sourcePath, targetPath, <<>>, FALSE)
     IN IF LockConflict(LockKey(task)) THEN Rejected(t, task)
        ELSE IF FinalPath(task) # <<>> /\ validateDirectoryName(FinalPath(task)) # ""
          THEN /\ Thrown(t, task, validateDirectoryName(FinalPath(task)))
               /\ UNCHANGED <<registry, fs, opfs, perm, interface>>
        ELSE /\ Accepted(t, task, "save_open")
             /\ UNCHANGED <<registry, fs, opfs, perm, interface>>

saveOpen(t) ==
  /\ tasks[t].pc = "save_open"
  /\ LET draft == DraftAfterGetHandle(opfs, tasks[t].path, "opfs")
         sourceHandle == getHandle(registry, fs, opfs, perm, tasks[t].path, "opfs", "readwrite")
         finalHandle == getHandle(registry, fs, opfs, perm, FinalPath(tasks[t]), "fs", "readwrite")
     IN /\ opfs' = draft
        /\ IF sourceHandle.err # "" THEN Settle(t, sourceHandle.err)
           ELSE IF ~IsFile(draft, sourceHandle.at) THEN Settle(t, "Unable to save")
           ELSE IF finalHandle.err # "" THEN Settle(t, finalHandle.err)
           ELSE IF ~IsFile(fs, finalHandle.at) THEN Settle(t, "Invalid target path")
           ELSE Advance(t, "save_commit", finalHandle, sourceHandle, draft[sourceHandle.at].data)
  /\ UNCHANGED <<registry, fs, perm, interface, calls>>

\* The chunk loop and writer.close(); the File read is a snapshot that
\* becomes unreadable when the draft file changed underneath it.
saveCommit(t) ==
  /\ tasks[t].pc = "save_commit"
  /\ LET source == tasks[t].src.at
         readable == IsFile(opfs, source) /\ opfs[source].data = tasks[t].snap
     IN \/ /\ readable /\ IsFile(fs, tasks[t].h.at)
           /\ fs' = Put(fs, tasks[t].h.at,
                        FileNode(streamToAsyncIterator(Chunks(tasks[t].snap), <<>>)))
           /\ Settle(t, "success")
        \/ /\ ~readable
           /\ UNCHANGED fs
           /\ Settle(t, "NotReadableError")
        \/ /\ readable /\ ~IsFile(fs, tasks[t].h.at)
           /\ UNCHANGED fs
           /\ Settle(t, "NotFoundError")
        \/ /\ UNCHANGED fs
           /\ Settle(t, "QuotaExceededError")
  /\ UNCHANGED <<registry, opfs, perm, interface, calls>>

\* -------------------------------------------------------------------- list
\* String.prototype.localeCompare with the default collation: the names are
\* compared by their letters first, then by their accents, then by their
\* case; canonically equivalent strings compare equal.
Alphabet == <<"-", ".", "1", "2", "a", "b", "d", "e", "f", "n", "r", "x", "y", "z">>

Precomposed == {"E"}

Combining == {"'"}

Uppercase == {"A", "B", "D", "F", "N", "R", "X", "Y", "Z"}

ToLower(c) ==
  CASE c = "A" -> "a"
    [] c = "B" -> "b"
    [] c = "D" -> "d"
    [] c = "F" -> "f"
    [] c = "N" -> "n"
    [] c = "R" -> "r"
    [] c = "X" -> "x"
    [] c = "Y" -> "y"
    [] c = "Z" -> "z"
    [] c = "E" -> "e"
    [] OTHER -> c

\* The collation elements of a name: letter, accent and case of each
\* character; a combining accent joins the element before it.
RECURSIVE CollationElements(_, _)
CollationElements(name, acc) ==
  IF Len(name) = 0 THEN acc
  ELSE IF Head(name) \in Combining /\ Len(acc) > 0
    THEN CollationElements(Tail(name), [acc EXCEPT ![Len(acc)].accent = 1])
  ELSE CollationElements(Tail(name),
         Append(acc, [letter |-> IndexOf(Alphabet, ToLower(Head(name))),
                      accent |-> IF Head(name) \in Precomposed THEN 1 ELSE 0,
                      case |-> IF Head(name) \in Uppercase THEN 1 ELSE 0]))

RECURSIVE LexCompare(_, _)
LexCompare(x, y) ==
  IF Len(x) = 0 /\ Len(y) = 0 THEN 0
  ELSE IF Len(x) = 0 THEN -1
  ELSE IF Len(y) = 0 THEN 1
  ELSE IF Head(x) < Head(y) THEN -1
  ELSE IF Head(x) > Head(y) THEN 1
  ELSE LexCompare(Tail(x), Tail(y))

localeCompare(a, b) ==
  LET ea == CollationElements(a, <<>>)
      eb == CollationElements(b, <<>>)
      letters == LexCompare([i \in 1..Len(ea) |-> ea[i].letter], [i \in 1..Len(eb) |-> eb[i].letter])
      accents == LexCompare([i \in 1..Len(ea) |-> ea[i].accent], [i \in 1..Len(eb) |-> eb[i].accent])
      cases == LexCompare([i \in 1..Len(ea) |-> ea[i].case], [i \in 1..Len(eb) |-> eb[i].case])
  IN IF letters # 0 THEN letters ELSE IF accents # 0 THEN accents ELSE cases

\* The comparator list sorts with: directories first, then by name.
CompareEntries(a, b) ==
  IF a.kind = "directory" /\ b.kind # "directory" THEN -1
  ELSE IF a.kind # "directory" /\ b.kind = "directory" THEN 1
  ELSE localeCompare(a.name, b.name)

\* Array.prototype.sort is stable: an entry goes before the first entry
\* that compares greater.
InsertEntry(sorted, x) ==
  LET after == {i \in 1..Len(sorted) : CompareEntries(sorted[i], x) > 0}
      k == IF after = {} THEN Len(sorted) + 1
           ELSE CHOOSE i \in after : \A j \in after : i <= j
  IN SubSeq(sorted, 1, k - 1) \o <<x>> \o SubSeq(sorted, k, Len(sorted))

RECURSIVE SortEntries(_, _)
SortEntries(entries, sorted) ==
  IF Len(entries) = 0 THEN sorted
  ELSE SortEntries(Tail(entries), InsertEntry(sorted, Head(entries)))

\* The names of the children of a directory.
Children(store, dir) ==
  {q[Len(q)] : q \in {x \in DOMAIN store : Len(x) = Len(dir) + 1 /\ IsPrefix(dir, x)}}

\* The orders in which handle.entries() may yield the children.
RECURSIVE Enumerations(_)
Enumerations(names) ==
  IF names = {} THEN {<<>>}
  ELSE UNION {{<<n>> \o rest : rest \in Enumerations(names \ {n})} : n \in names}

\* entries.push({name, fullPath: `${path}/${handleName}`, ...})
ListEntries(path, dir, order) ==
  [i \in 1..Len(order) |->
     [name |-> order[i], fullPath |-> path \o <<"/">> \o order[i],
      kind |-> fs[Append(dir, order[i])].kind]]

list(path) ==
  /\ LET handle == getHandle(registry, fs, opfs, perm, path, "fs", "read")
         isDirectory == handle.err = "" /\ IsDir(fs, handle.at)
     IN \E order \in Enumerations(IF isDirectory THEN Children(fs, handle.at) ELSE {}) :
          Atomic("list", path,
                 IF handle.err # "" THEN handle.err
                 ELSE IF ~isDirectory THEN "Unable to list a file"
                 ELSE "success",
                 IF isDirectory
                   THEN [NoOut EXCEPT !.content =
                           SortEntries(ListEntries(path, handle.at, order), <<>>)]
                   ELSE NoOut)
  /\ UNCHANGED <<registry, fs, opfs, perm, interface, fileLocks, tasks>>

\* ------------------------------------- remove, createFile, createDirectory
ParentPath(path) ==
  IF Join(Pop(Split(path, "/")), "/") # <<>> THEN Join(Pop(Split(path, "/")), "/")
  ELSE <<"/">>

remove(t, path) ==
  /\ Begin(t, Call("remove", path, <<>>, <<>>, FALSE), "remove_entry")

removeStep_Both(t) ==
  /\ tasks[t].pc = "remove_entry"
  /\ \E busy \in BOOLEAN :
       LET name == Last(Split(tasks[t].path, "/"))
           handle == getHandle(registry, fs, opfs, perm, ParentPath(tasks[t].path),
                               "fs", "readwrite")
           err == IF handle.err # "" THEN handle.err
                  ELSE IF ~IsDir(fs, handle.at) THEN "Cannot delete from a file"
                  ELSE removeEntry("fs", fs, handle.at, name, TRUE, busy)
       IN /\ fs' = IF err = "" THEN RemoveTree(fs, Append(handle.at, name)) ELSE fs
          /\ opfs' = IF err = "" THEN RemoveTree(opfs, Append(handle.at, name)) ELSE opfs
          /\ Settle(t, IF err = "" THEN "success" ELSE err)
  /\ UNCHANGED <<registry, perm, interface, calls>>

\* getHandle(parentPath, {mode: "readwrite"}); removeEntry(name, {recursive: true})
removeStep(t) ==
  /\ tasks[t].pc = "remove_entry"
  /\ \E busy \in BOOLEAN :
       LET name == Last(Split(tasks[t].path, "/"))
           handle == getHandle(registry, fs, opfs, perm, ParentPath(tasks[t].path),
                               "fs", "readwrite")
           err == IF handle.err # "" THEN handle.err
                  ELSE IF ~IsDir(fs, handle.at) THEN "Cannot delete from a file"
                  ELSE removeEntry("fs", fs, handle.at, name, TRUE, busy)
       IN /\ fs' = IF err = "" THEN RemoveTree(fs, Append(handle.at, name)) ELSE fs
          /\ Settle(t, IF err = "" THEN "success" ELSE err)
  /\ UNCHANGED <<registry, opfs, perm, interface, calls>>

Create(t, op, path, force) ==
  /\ CanCall(t)
  /\ calls' = calls + 1
  /\ LET task == Call(op, path, <<>>, <<>>, force)
         name == Last(Split(path, "/"))
     IN IF LockConflict(LockKey(task)) THEN Rejected(t, task)
        ELSE IF validateDirectoryName(name) # ""
          THEN /\ Thrown(t, task, validateDirectoryName(name))
               /\ UNCHANGED <<registry, fs, opfs, perm, interface>>
        ELSE /\ Accepted(t, task, "create_entry")
             /\ UNCHANGED <<registry, fs, opfs, perm, interface>>

createFile(t, path, force) ==
  /\ Create(t, "createFile", path, force)

createDirectory(t, path, force) ==
  /\ Create(t, "createDirectory", path, force)

\* getDirectoryHandle(name, {create})
MakeDir(store, dir, name, create) ==
  IF ~NameOk(name) THEN [err |-> "TypeError", store |-> store, at |-> dir]
  ELSE IF IsFile(store, Append(dir, name))
    THEN [err |-> "TypeMismatchError", store |-> store, at |-> dir]
  ELSE IF IsDir(store, Append(dir, name))
    THEN [err |-> "", store |-> store, at |-> Append(dir, name)]
  ELSE IF ~create THEN [err |-> "NotFoundError", store |-> store, at |-> dir]
  ELSE [err |-> "", store |-> Put(store, Append(dir, name), DirNode),
        at |-> Append(dir, name)]

createStep(t) ==
  /\ tasks[t].pc = "create_entry"
  /\ LET name == Last(Split(tasks[t].path, "/"))
         handle == getHandle(registry, fs, opfs, perm, ParentPath(tasks[t].path),
                             "fs", "readwrite")
         made == IF tasks[t].op = "createFile"
                   THEN MakeFile(fs, handle.at, name, tasks[t].force)
                   ELSE MakeDir(fs, handle.at, name, tasks[t].force)
     IN IF handle.err # "" THEN UNCHANGED fs /\ Settle(t, handle.err)
        ELSE IF ~IsDir(fs, handle.at)
          THEN UNCHANGED fs /\ Settle(t, IF tasks[t].op = "createFile"
                                           THEN "Cannot create file in a file"
                                           ELSE "Cannot create directory in a file")
        ELSE fs' = made.store /\ Settle(t, IF made.err = "" THEN "success" ELSE made.err)
  /\ UNCHANGED <<registry, opfs, perm, interface, calls>>

\* ------------------------------------------------------------ move, copy
move ==
  /\ Atomic("move", <<>>, "Feature Unimplemented", NoOut)
  /\ UNCHANGED <<registry, fs, opfs, perm, interface, fileLocks, tasks>>

\* Math.random().toString(36).slice(2, 9)
Suffixes == {<<"1">>, <<"2">>}

\* `${targetNameSegment}-${random}.${targetNameExtensions.join(".")}`
Renamed(targetName, random) ==
  Head(Split(targetName, ".")) \o <<"-">> \o random \o <<".">>
    \o Join(Tail(Split(targetName, ".")), ".")

copy(t, sourcePath, targetPath, force) ==
  /\ Begin(t, Call("copy", sourcePath, targetPath, <<>>, force), "copy_open")

copyOpen(t) ==
  /\ tasks[t].pc = "copy_open"
  /\ \E random \in Suffixes :
       LET targetSegments == pathToSegments(tasks[t].target)
           targetParentPath == Join(Pop(targetSegments), "/")
           probe == getHandle(registry, fs, opfs, perm, tasks[t].target, "fs", "readwrite")
           targetName == IF probe.err = "" /\ IsFile(fs, probe.at)
                           THEN Renamed(Last(targetSegments), random)
                           ELSE Last(targetSegments)
           sourceHandle == getHandle(registry, fs, opfs, perm, tasks[t].path, "fs", "read")
           targetParentHandle == getHandle(registry, fs, opfs, perm, targetParentPath,
                                           "fs", "readwrite")
           made == MakeFile(fs, targetParentHandle.at, targetName, tasks[t].force)
       IN IF sourceHandle.err # "" THEN UNCHANGED fs /\ Settle(t, sourceHandle.err)
          ELSE IF targetParentHandle.err # ""
            THEN UNCHANGED fs /\ Settle(t, targetParentHandle.err)
          ELSE IF ~(IsDir(fs, targetParentHandle.at) /\ IsFile(fs, sourceHandle.at))
            THEN UNCHANGED fs /\ Settle(t, "Can not copy to a file.")
          ELSE IF made.err # "" THEN UNCHANGED fs /\ Settle(t, made.err)
          ELSE /\ fs' = made.store
               /\ Advance(t, "copy_commit", Ok("fs", made.at), sourceHandle,
                          fs[sourceHandle.at].data)
  /\ UNCHANGED <<registry, opfs, perm, interface, calls>>

copyCommit(t) ==
  /\ tasks[t].pc = "copy_commit"
  /\ LET source == tasks[t].src.at
         readable == IsFile(fs, source) /\ fs[source].data = tasks[t].snap
     IN \/ /\ readable /\ IsFile(fs, tasks[t].h.at)
           /\ fs' = Put(fs, tasks[t].h.at,
                        FileNode(streamToAsyncIterator(Chunks(tasks[t].snap), <<>>)))
           /\ Settle(t, "success")
        \/ /\ ~readable
           /\ UNCHANGED fs
           /\ Settle(t, "NotReadableError")
        \/ /\ readable /\ ~IsFile(fs, tasks[t].h.at)
           /\ UNCHANGED fs
           /\ Settle(t, "NotFoundError")
        \/ /\ UNCHANGED fs
           /\ Settle(t, "QuotaExceededError")
  /\ UNCHANGED <<registry, opfs, perm, interface, calls>>

\* moveWebFsEntry({sourcePath, targetPath, options}): equal paths return
\* {success: true} without a worker call, otherwise worker.copy is called.
moveWebFsEntry(t, sourcePath, targetPath, force) ==
  IF sourcePath = targetPath
    THEN /\ CanCall(t)
         /\ calls' = calls + 1
         /\ last' = [NoCall EXCEPT !.op = "moveWebFsEntry", !.path = sourcePath,
                                   !.target = targetPath, !.res = "success"]
         /\ UNCHANGED <<registry, fs, opfs, perm, interface, fileLocks, tasks>>
    ELSE Begin(t, [Call("copy", sourcePath, targetPath, <<>>, force)
                     EXCEPT !.via = "moveWebFsEntry"], "copy_open")

\* await worker.remove(sourcePath), after worker.copy resolved
moveRemove(t) ==
  /\ tasks[t].pc = "move_remove"
  /\ LET task == [Call("remove", tasks[t].path, <<>>, <<>>, FALSE)
                   EXCEPT !.via = "moveWebFsEntry"]
     IN IF LockConflict(LockKey(task))
          THEN /\ last' = Result(t, task, "File lock already acquired", NoOut)
               /\ tasks' = [tasks EXCEPT ![t] = IdleTask]
               /\ UNCHANGED fileLocks
          ELSE Accepted(t, task, "remove_entry")
  /\ UNCHANGED <<registry, fs, opfs, perm, interface, calls>>

\* ---------------------------------------------------- interface reducers
Dispatched(type, path) == [NoCall EXCEPT !.op = type, !.path = path]

\* state.openFiles.findIndex((f) => f.path === path), counted from 1; 0
\* when there is none.
findIndex(files, path) ==
  IF \E i \in 1..Len(files) : files[i].path = path
    THEN CHOOSE i \in 1..Len(files) :
           files[i].path = path /\ \A j \in 1..(i - 1) : files[j].path # path
    ELSE 0

\* {...file, ...payload}
Spread(file, payload) ==
  [k \in DOMAIN file |-> IF payload[k] # "absent" THEN payload[k] ELSE file[k]]

openFile(payload) ==
  LET openFileIndex == findIndex(interface.openFiles, payload.path)
  IN /\ interface' =
          [openFiles |->
             IF openFileIndex = 0 THEN Append(interface.openFiles, payload)
             ELSE [interface.openFiles EXCEPT
                     ![openFileIndex] = Spread(interface.openFiles[openFileIndex], payload)],
           activeFile |-> payload.path]
     /\ last' = Dispatched("openFile", payload.path)
     /\ UNCHANGED <<registry, fs, opfs, perm, fileLocks, tasks, calls>>

closeFile_KeepActive(path) ==
  \E random \in Suffixes :
    LET filtered == SelectSeq(interface.openFiles, LAMBDA f : f.path # path)
        nextOpenFiles == IF Len(filtered) = 0
                           THEN <<OpenFile("Untitled", UntitledPath(random), "absent")>>
                           ELSE filtered
    IN /\ interface' = [openFiles |-> nextOpenFiles, activeFile |-> interface.activeFile]
       /\ last' = Dispatched("closeFile", path)
       /\ UNCHANGED <<registry, fs, opfs, perm, fileLocks, tasks, calls>>

\* The filter, the fresh untitled file when nothing is left, and
\* nextOpenFiles.at(-1)?.path when the active file was closed.
closeFile(path) ==
  \E random \in Suffixes :
    LET filtered == SelectSeq(interface.openFiles, LAMBDA f : f.path # path)
        nextOpenFiles == IF Len(filtered) = 0
                           THEN <<OpenFile("Untitled", UntitledPath(random), "absent")>>
                           ELSE filtered
    IN /\ interface' =
            [openFiles |-> nextOpenFiles,
             activeFile |-> IF interface.activeFile = path
                              THEN nextOpenFiles[Len(nextOpenFiles)].path
                              ELSE interface.activeFile]
       /\ last' = Dispatched("closeFile", path)
       /\ UNCHANGED <<registry, fs, opfs, perm, fileLocks, tasks, calls>>

\* splice(from, 1) and splice(to, 0, moved), with positions counted from 1.
reorderFiles(from, to) ==
  LET files == interface.openFiles
      moved == files[from]
      rest == SubSeq(files, 1, from - 1) \o SubSeq(files, from + 1, Len(files))
  IN /\ from \in 1..Len(files)
     /\ to \in 1..Len(files)
     /\ interface' =
          [interface EXCEPT !.openFiles =
             SubSeq(rest, 1, to - 1) \o <<moved>> \o SubSeq(rest, to, Len(rest))]
     /\ last' = Dispatched("reorderFiles", <<>>)
     /\ UNCHANGED <<registry, fs, opfs, perm, fileLocks, tasks, calls>>

\* ---------------------------------------------------------- specification
Step(t) ==
  \/ editOpen(t)
  \/ editCommit(t)
  \/ writeOpen(t)
  \/ writeCommit(t)
  \/ saveOpen(t)
  \/ saveCommit(t)
  \/ closeRemove(t)
  \/ removeStep(t)
  \/ createStep(t)
  \/ copyOpen(t)
  \/ copyCommit(t)

\* Calls that take the per-path lock, and close() which clears the drafts.
NextLock ==
  \/ closeAll
  \/ \E t \in Tasks :
       \/ \E path \in {P_ra, P_sra} :
            \/ \E content \in {<<"x">>} : edit(t, path, content)
            \/ \E content \in Texts : write(t, path, content)
       \/ \E path \in {P_ra}, content \in Binaries :
            editBinary(t, path, content) \/ writeBinary(t, path, content)
       \/ \E path \in {P_f, P_ra} :
            \/ \E targetPath \in {<<>>} : save(t, path, targetPath)
            \/ close(t, path)
       \/ \E path \in {P_ra} :
            \/ remove(t, path)
            \/ \E force \in {TRUE} :
                 createFile(t, path, force) \/ createDirectory(t, path, force)
       \/ \E sourcePath \in {P_ra}, targetPath \in {P_f, P_ra}, force \in {TRUE} :
            copy(t, sourcePath, targetPath, force)
  \/ \E t \in Tasks : Step(t)

\* The draft life cycle: open, edit, read, save, close.
NextDraft ==
  \/ \E handle \in Handles : open(handle)
  \/ closeAll
  \/ \E path \in DraftPaths : read(path) \/ readBinary(path) \/ meta(path)
  \/ \E t \in Tasks, path \in DraftPaths :
       \/ \E content \in Texts : edit(t, path, content) \/ write(t, path, content)
       \/ \E content \in Binaries :
            editBinary(t, path, content) \/ writeBinary(t, path, content)
       \/ \E targetPath \in {<<>>, P_f} : save(t, path, targetPath)
       \/ close(t, path)
  \/ \E t \in Tasks :
       \/ editOpen(t)
       \/ editCommit(t)
       \/ writeOpen(t)
       \/ writeCommit(t)
       \/ saveOpen(t)
       \/ saveCommit(t)
       \/ closeRemove(t)


SpecLock == Init /\ [][NextLock]_vars

SpecDraft == Init /\ [][NextDraft]_vars

\* The registry: open and listHandleKeys beside calls that stage drafts.
NextRegistry ==
  \/ \E handle \in RegistryHandles : open(handle)
  \/ listHandleKeys
  \/ closeAll
  \/ \E t \in Tasks :
       \/ \E path \in {P_ra}, content \in {<<"x">>} : edit(t, path, content)
       \/ editOpen(t)
       \/ editCommit(t)

SpecRegistry == Init /\ [][NextRegistry]_vars

\* meta beside the calls that stage and discard drafts and that write the
\* external file.
NextMeta ==
  \/ \E path \in MetaPaths : meta(path)
  \/ closeAll
  \/ \E t \in Tasks :
       \/ \E path \in {P_f, P_ra}, content \in {<<"y", "x">>} : edit(t, path, content)
       \/ \E path \in {P_ra}, content \in {<<"y", "x">>} : write(t, path, content)
       \/ \E path \in {P_ra} : close(t, path)
       \/ editOpen(t)
       \/ editCommit(t)
       \/ writeOpen(t)
       \/ writeCommit(t)
       \/ closeRemove(t)

SpecMeta == Init /\ [][NextMeta]_vars

\* meta of a directory and of the one file staged below it, beside the edit
\* and the close of that file.
InitDirty ==
  /\ registry = FullRegistry
  /\ fs = TreeFs
  /\ opfs \in {DraftRootOnly, DraftOne}
  /\ perm = [n \in {h.name : h \in Handles} |-> Granted]
  /\ fileLocks = [k \in {} |-> 0]
  /\ tasks = [t \in Tasks |-> IdleTask]
  /\ last = NoCall
  /\ calls = 0
  /\ interface = initialStateResolver

NextDirty ==
  \/ \E path \in {P_r, P_ra, P_rd} : meta(path)
  \/ \E t \in Tasks :
       \/ \E path \in {P_ra, P_rdsa}, content \in {<<"x">>} : edit(t, path, content)
       \/ \E path \in {P_ra} : close(t, path)
       \/ editOpen(t)
       \/ editCommit(t)
       \/ closeRemove(t)

SpecDirty == InitDirty /\ [][NextDirty]_vars

\* The external tree: list, create, remove and copy, beside staged drafts.
InitTree ==
  /\ registry = FullRegistry
  /\ fs = TreeFs
  /\ opfs \in {EmptyStore, DraftStaged}
  /\ perm = [n \in {h.name : h \in Handles} |-> Granted]
  /\ fileLocks = [k \in {} |-> 0]
  /\ tasks = [t \in Tasks |-> IdleTask]
  /\ last = NoCall
  /\ calls = 0
  /\ interface = initialStateResolver

NextTree ==
  \/ \E path \in {P_r, P_rd, P_f} : list(path)
  \/ \E t \in Tasks :
       \/ \E path \in {P_ra, P_rn, P_rd}, force \in BOOLEAN :
            createFile(t, path, force) \/ createDirectory(t, path, force)
       \/ \E path \in {P_ra, P_rd} : remove(t, path)
       \/ \E sourcePath \in {P_ra}, targetPath \in {P_rb, P_rn}, force \in BOOLEAN :
            copy(t, sourcePath, targetPath, force)
       \/ removeStep(t)
       \/ createStep(t)
       \/ copyOpen(t)
       \/ copyCommit(t)

SpecTree == InitTree /\ [][NextTree]_vars

\* Recursive removal of a directory, beside a write below it and the
\* read-only calls that look at what is left.
NextRemove ==
  \/ \E path \in {P_r, P_rd} : list(path)
  \/ \E path \in {P_rd, P_ra} : meta(path)
  \/ \E path \in {P_rdsa, P_ra} : read(path)
  \/ \E t \in Tasks :
       \/ \E path \in {P_rd, P_ra} : remove(t, path)
       \/ \E path \in {P_rdsa}, content \in {<<"x">>} : write(t, path, content)
       \/ removeStep(t)
       \/ writeOpen(t)
       \/ writeCommit(t)

SpecRemove == InitTree /\ [][NextRemove]_vars

\* Handle resolution in both stores, beside an edit that stages a draft.
InitResolve ==
  /\ registry = FullRegistry
  /\ fs = ResolveFs
  /\ opfs \in {EmptyStore, DraftStaged}
  /\ perm = [n \in {h.name : h \in Handles} |-> Granted]
  /\ fileLocks = [k \in {} |-> 0]
  /\ tasks = [t \in Tasks |-> IdleTask]
  /\ last = NoCall
  /\ calls = 0
  /\ interface = initialStateResolver

NextResolve ==
  \/ \E path \in ResolvePaths, type \in {"fs", "opfs"} : getHandleCall(path, type)
  \/ \E t \in Tasks :
       \/ \E path \in {P_rdsa}, content \in {<<"x">>} : edit(t, path, content)
       \/ editOpen(t)
       \/ editCommit(t)

SpecResolve == InitResolve /\ [][NextResolve]_vars

\* Names for createFile and createDirectory: one of each kind that
\* validateDirectoryName refuses, and names it accepts.
NameOfLength(n) == [i \in 1..n |-> "a"]

RefusedNames ==
  {<<>>, <<".">>, <<".", ".">>, NameOfLength(MaxNameLen + 1)}
    \cup {<<"a", c>> : c \in InvalidChars \ {"/"}}
    \cup {<<"c", "o", "n">>, <<"P", "r", "n">>, <<"a", "u", "x">>, <<"N", "U", "L">>,
          <<"C", "o", "M", "1">>, <<"l", "p", "t", "9">>}
    \cup {<<".", "a">>, <<"a", ".">>}

AcceptedNames == {<<"n">>, NameOfLength(MaxNameLen), <<"c", "o", "n", "1">>}

NamePaths == {<<"r", "/">> \o name : name \in RefusedNames \cup AcceptedNames}

NextName ==
  \/ \E t \in Tasks :
       \/ \E path \in NamePaths, force \in {TRUE} :
            createFile(t, path, force) \/ createDirectory(t, path, force)
       \/ createStep(t)

SpecName == InitTree /\ [][NextName]_vars

\* Permission states of a root handle: read and write granted, read only,
\* not yet asked, refused.
ReadOnly == [read |-> "granted", readwrite |-> "prompt"]

Prompt == [read |-> "prompt", readwrite |-> "prompt"]

Denied == [read |-> "denied", readwrite |-> "denied"]

PermissionStates == {Granted, ReadOnly, Prompt, Denied}

InitPermission ==
  /\ registry = FullRegistry
  /\ fs = InitFs
  /\ opfs = DraftStaged
  /\ perm \in [{h.name : h \in Handles} -> PermissionStates]
  /\ fileLocks = [k \in {} |-> 0]
  /\ tasks = [t \in Tasks |-> IdleTask]
  /\ last = NoCall
  /\ calls = 0
  /\ interface = initialStateResolver

NextPermission ==
  \/ \E path \in {P_f, P_ra} : meta(path)
  \/ \E t \in Tasks :
       \/ \E path \in {P_f, P_ra}, content \in {<<"x">>} : write(t, path, content)
       \/ \E path \in {P_ra}, content \in Binaries : writeBinary(t, path, content)
       \/ \E path \in {P_f}, targetPath \in {<<>>} : save(t, path, targetPath)
       \/ \E path \in {P_ra} : remove(t, path)
       \/ \E path \in {P_rn}, force \in {TRUE} :
            createFile(t, path, force) \/ createDirectory(t, path, force)
       \/ \E sourcePath \in {P_ra}, targetPath \in {P_rn}, force \in {TRUE} :
            copy(t, sourcePath, targetPath, force)
       \/ writeOpen(t)
       \/ writeCommit(t)
       \/ saveOpen(t)
       \/ saveCommit(t)
       \/ removeStep(t)
       \/ createStep(t)
       \/ copyOpen(t)
       \/ copyCommit(t)

SpecPermission == InitPermission /\ [][NextPermission]_vars

\* save with final paths of no, one and two segments and with names the
\* validator refuses, beside an edit of the same draft.
SavePaths == {<<>>, P_f, P_ra, <<"f", ".">>, <<"C", "O", "N">>}

InitSave ==
  /\ registry = FullRegistry
  /\ fs = InitFs
  /\ opfs = DraftStaged
  /\ perm = [n \in {h.name : h \in Handles} |-> Granted]
  /\ fileLocks = [k \in {} |-> 0]
  /\ tasks = [t \in Tasks |-> IdleTask]
  /\ last = NoCall
  /\ calls = 0
  /\ interface = initialStateResolver

NextSave ==
  \E t \in Tasks :
    \/ \E sourcePath \in {<<>>, P_f, P_ra}, targetPath \in SavePaths :
         save(t, sourcePath, targetPath)
    \/ \E path \in {P_f}, content \in {<<"x">>} : edit(t, path, content)
    \/ saveOpen(t)
    \/ saveCommit(t)
    \/ editOpen(t)
    \/ editCommit(t)

SpecSave == InitSave /\ [][NextSave]_vars

\* The open tabs: files opened with and without a mode, among them one
\* whose path is that of a fresh untitled file, closed and moved around.
TabPaths == {P_f, P_ra, UntitledPath(<<"1">>)}

Payloads ==
  {OpenFile(name, path, mode) :
     name \in {"tab"}, path \in TabPaths, mode \in {"absent", "hex", "normal"}}

\* The positions of a list that holds every path once and the initial file.
TabPositions == 1..(Cardinality(TabPaths) + 1)

\* The slice is created with the store, before any worker call.
InitInterface ==
  /\ registry = NoRegistry
  /\ fs = InitFs
  /\ opfs = EmptyStore
  /\ perm = [n \in {h.name : h \in Handles} |-> Granted]
  /\ fileLocks = [k \in {} |-> 0]
  /\ tasks = [t \in Tasks |-> IdleTask]
  /\ last = NoCall
  /\ calls = 0
  /\ interface = initialStateResolver

NextInterface ==
  \/ \E payload \in Payloads : openFile(payload)
  \/ \E path \in TabPaths \cup {initialStateResolver.activeFile} : closeFile(path)
  \/ \E from \in TabPositions, to \in TabPositions : reorderFiles(from, to)

SpecInterface == InitInterface /\ [][NextInterface]_vars

\* Clearing the drafts, by close() and by open(), between the awaits of an
\* edit.
NextClear ==
  \/ closeAll
  \/ \E handle \in {H_r} : open(handle)
  \/ \E t \in Tasks :
       \/ \E path \in {P_ra, P_f}, content \in {<<"x">>} : edit(t, path, content)
       \/ editRoot(t)
       \/ editDirs(t)
       \/ editFile(t)
       \/ editCommit(t)

SpecClear == Init /\ [][NextClear]_vars

\* The two moves, beside a copy to the same target and with a root that
\* may be read-only.
InitMove ==
  /\ registry = FullRegistry
  /\ fs = TreeFs
  /\ opfs = EmptyStore
  /\ perm \in {[n \in {h.name : h \in Handles} |-> Granted],
               [n \in {h.name : h \in Handles} |-> ReadOnly]}
  /\ fileLocks = [k \in {} |-> 0]
  /\ tasks = [t \in Tasks |-> IdleTask]
  /\ last = NoCall
  /\ calls = 0
  /\ interface = initialStateResolver

NextMove ==
  \/ move
  \/ \E t \in Tasks :
       \/ \E sourcePath \in {P_ra, P_rd}, targetPath \in {P_ra, P_rn}, force \in BOOLEAN :
            moveWebFsEntry(t, sourcePath, targetPath, force)
       \/ \E sourcePath \in {P_rb}, targetPath \in {P_rn}, force \in {TRUE} :
            copy(t, sourcePath, targetPath, force)
       \/ copyOpen(t)
       \/ copyCommit(t)
       \/ moveRemove(t)
       \/ removeStep(t)

SpecMove == InitMove /\ [][NextMove]_vars

Next ==
  \/ NextLock
  \/ NextDraft
  \/ NextRegistry
  \/ NextMeta
  \/ NextTree
  \/ NextRemove
  \/ NextResolve
  \/ NextMove
  \/ NextInterface
  \/ NextDirty
  \/ NextSave
  \/ NextClear
  \/ NextName
  \/ NextPermission
  \/ move

Spec == Init /\ [][Next]_vars

\* ================================================================ claims
ConflictMsg == "File lock already acquired"

\* Failures of the storage itself, not of the mediator's logic.
StorageErrors == {"QuotaExceededError", "NotReadableError", "NotFoundError",
                  "NoModificationAllowedError"}

LastKey(r) == IF r.op = "copy" THEN r.target ELSE r.path

IsLockedCall(r) == r.op \in LockedOps /\ ~(r.op = "close" /\ r.path = <<>>)

HeldKeys == {LockKey(tasks[u]) : u \in {v \in Tasks : InFlight(v)}}

\* A call returned in the turn it was made (rejected, thrown, or unlocked).
ReturnsAtOnce == calls' = calls + 1 /\ tasks' = tasks

Settles(t) == tasks[t].pc # "idle" /\ tasks'[t].pc = "idle"

Expected(op, data) == IF op \in {"edit", "write"} THEN Utf8Encode(data) ELSE data

\* C1: a mutating call with lock key P is rejected with the lock-conflict
\* error, before any part of its body runs, if and only if another mutating
\* call with key P has started and not yet settled; a call whose key differs
\* from every in-flight key is never rejected by the lock.
C1_LockConflictIff ==
  [][/\ \A t \in Tasks :
          (tasks[t].pc = "idle" /\ tasks'[t].pc # "idle")
            => LockKey(tasks'[t]) \notin HeldKeys
     /\ (ReturnsAtOnce /\ IsLockedCall(last'))
          => /\ (last'.res = ConflictMsg) <=> (LastKey(last') \in HeldKeys)
             /\ (last'.res = ConflictMsg)
                  => UNCHANGED <<registry, fs, opfs, perm, interface, fileLocks>>]_vars

\* A call was rejected while the holder of its key is in flight, and a call
\* with a different key runs beside a holder.
C1_Witness ==
  /\ last.res = ConflictMsg
  /\ \E t \in Tasks : InFlight(t) /\ LockKey(tasks[t]) = LastKey(last)

\* The node an in-flight call writes or deletes: a draft node for edit and
\* close, else an external node: the file a copy created once it has one,
\* the final path of a save, the segments of the path otherwise.
TargetNode(task) ==
  IF task.op \in {"edit", "editBinary", "close"}
    THEN <<"opfs", pathToSegments(task.path)>>
  ELSE IF task.op = "copy" /\ task.pc = "copy_commit" THEN <<"fs", task.h.at>>
  ELSE IF task.op = "copy" THEN <<"fs", pathToSegments(task.target)>>
  ELSE IF task.op = "save" THEN <<"fs", pathToSegments(FinalPath(task))>>
  ELSE <<"fs", pathToSegments(task.path)>>

\* C2: at no time are two mutating operations in flight on the same virtual
\* path, path strings with the same segment list being the same path.
C2_OneOperationPerNode ==
  \A t, u \in Tasks :
    (t # u /\ InFlight(t) /\ InFlight(u)) => TargetNode(tasks[t]) # TargetNode(tasks[u])

IsWrite(op) == op \in {"write", "writeBinary"}

\* C3: of two overlapping write calls on the same path the second fails with
\* the lock conflict and changes nothing; the accepted call leaves the file
\* at the path with exactly its content when it succeeds and with its prior
\* content when it fails, never anything else.
C3_ConcurrentWrites ==
  [][/\ \A t \in Tasks :
          (ReturnsAtOnce /\ IsWrite(last'.op) /\ InFlight(t) /\ IsWrite(tasks[t].op)
             /\ tasks[t].path = last'.path)
            => (last'.res = ConflictMsg /\ fs' = fs /\ opfs' = opfs)
     /\ \A t \in Tasks :
          (IsWrite(tasks[t].op) /\ tasks'[t] # tasks[t])
            => IF Settles(t) /\ last'.res = "success"
                 THEN /\ IsFile(fs, pathToSegments(tasks[t].path))
                      /\ fs' = Put(fs, pathToSegments(tasks[t].path),
                                   FileNode(Expected(tasks[t].op, tasks[t].data)))
                 ELSE fs' = fs
     /\ \A t, u \in Tasks :
          (t # u /\ IsWrite(tasks'[t].op) /\ IsWrite(tasks'[u].op)
             /\ tasks'[t].pc # "idle" /\ tasks'[u].pc # "idle")
            => tasks'[t].path # tasks'[u].path]_vars

\* A write was rejected while an earlier write of the same path is in flight.
C3_Witness ==
  /\ IsWrite(last.op) /\ last.res = ConflictMsg
  /\ \E t \in Tasks :
       /\ IsWrite(tasks[t].op) /\ tasks[t].path = last.path
       /\ tasks[t].pc = "write_commit" /\ tasks[t].data # last.data

IsRead(op) == op \in {"read", "readBinary"}

\* C4: read and readBinary return the staged content with isDirty = true
\* whenever a staged file exists at the path, also when no external file
\* exists there; otherwise the external content with isDirty not true.
C4_ReadPrefersDraft ==
  [][(ReturnsAtOnce /\ IsRead(last'.op))
       => LET node == pathToSegments(last'.path)
              decoded(bs) == IF last'.op = "read" THEN Utf8Decode(bs) ELSE bs
          IN IF IsFile(opfs, node) /\ Head(node) \in DOMAIN registry
               THEN /\ last'.res = "success"
                    /\ last'.out.isDirty = "true"
                    /\ last'.out.content = decoded(opfs[node].data)
               ELSE (last'.res = "success")
                      => /\ last'.out.isDirty # "true"
                         /\ last'.out.content = decoded(fs[node].data)]_vars

\* C5: close(P) of a path with a staged file and an external file succeeds,
\* removes only the staged node at P and leaves the external store alone;
\* single-segment paths included.
C5_ClosePathDiscardsDraft ==
  [][\A t \in Tasks :
       (tasks[t].op = "close" /\ Settles(t)
          /\ IsFile(opfs, pathToSegments(tasks[t].path))
          /\ IsFile(fs, pathToSegments(tasks[t].path))
          /\ Head(pathToSegments(tasks[t].path)) \in DOMAIN registry)
         => /\ last'.res = "success"
            /\ opfs' = RemoveTree(opfs, pathToSegments(tasks[t].path))
            /\ fs' = fs]_vars

\* C6 as stated: after any write call the external tree is unchanged and
\* the path is dirty.
C6_WriteStagesOnly ==
  [][\A t \in Tasks :
       (IsWrite(tasks[t].op) /\ Settles(t) /\ last'.res = "success")
         => /\ fs' = fs
            /\ Has(opfs', pathToSegments(tasks[t].path))]_vars

\* C6 amended: write never modifies the draft store; a successful write
\* leaves the external file at the path holding exactly the content and
\* nothing else of the external tree changed, a failed one changes nothing.
C6_WriteExternalOnly ==
  [][/\ \A t \in Tasks :
          (IsWrite(tasks'[t].op) /\ tasks'[t] # tasks[t])
            => (opfs' = opfs /\ fs' = fs /\ registry' = registry)
     /\ \A t \in Tasks :
          (IsWrite(tasks[t].op) /\ Settles(t))
            => /\ opfs' = opfs
               /\ registry' = registry
               /\ IF last'.res = "success"
                    THEN fs' = [fs EXCEPT ![pathToSegments(tasks[t].path)] =
                                  FileNode(Expected(tasks[t].op, tasks[t].data))]
                    ELSE fs' = fs
     /\ (ReturnsAtOnce /\ IsWrite(last'.op)) => (opfs' = opfs /\ fs' = fs)]_vars

\* A write succeeded on a clean path: the external file holds the content
\* and the path is still not dirty.
C6_Witness ==
  /\ last.op = "write" /\ last.res = "success"
  /\ IsFile(fs, pathToSegments(last.path))
  /\ fs[pathToSegments(last.path)].data = Utf8Encode(last.data)
  /\ fs[pathToSegments(last.path)].data # InitData
  /\ ~Has(opfs, pathToSegments(last.path))

IsEdit(op) == op \in {"edit", "editBinary"}

FilesOf(store) == {q \in DOMAIN store : store[q].kind = "file"}

\* C7: edit and editBinary leave the external store and the registry
\* unchanged and change no other staged file; on success the draft store
\* holds a file at the path with exactly the content, below directories for
\* every leading segment.
C7_EditStagesExactly ==
  [][/\ \A t \in Tasks :
          (tasks[t].pc = "idle" /\ IsEdit(tasks'[t].op))
            => (opfs' = opfs /\ fs' = fs /\ registry' = registry)
     /\ (ReturnsAtOnce /\ IsEdit(last'.op))
          => (opfs' = opfs /\ fs' = fs /\ registry' = registry)
     /\ \A t \in Tasks :
          (IsEdit(tasks[t].op) /\ tasks'[t] # tasks[t])
            => LET node == pathToSegments(tasks[t].path)
               IN /\ fs' = fs
                  /\ registry' = registry
                  /\ \A q \in (FilesOf(opfs) \cup FilesOf(opfs')) \ {node} :
                       q \in FilesOf(opfs) /\ q \in FilesOf(opfs') /\ opfs'[q] = opfs[q]
                  /\ (Settles(t) /\ last'.res = "success")
                       => /\ IsFile(opfs', node)
                          /\ opfs'[node].data = Expected(tasks[t].op, tasks[t].data)
                          /\ \A i \in 0..(Len(node) - 1) : IsDir(opfs', SubSeq(node, 1, i))]_vars

\* An edit of a nested path succeeded over an earlier draft.
C7_Witness ==
  /\ last.op = "edit" /\ last.res = "success"
  /\ Len(pathToSegments(last.path)) > 1
  /\ IsFile(opfs, pathToSegments(last.path))
  /\ opfs[pathToSegments(last.path)].data = Utf8Encode(last.data)
  /\ IsFile(opfs, << <<"f">> >>)

\* The path resolves to a writable external file and has a staged file.
Savable(path) ==
  /\ IsFile(opfs, pathToSegments(path))
  /\ IsFile(fs, pathToSegments(path))
  /\ Head(pathToSegments(path)) \in DOMAIN registry
  /\ perm[Head(pathToSegments(path))].readwrite = "granted"

\* C8: for every path that resolves to a writable external file and holds a
\* draft, save succeeds (storage failures aside) and the external file at
\* targetPath, else at the path, then holds the staged bytes.
C8_SaveRoundTrip ==
  [][/\ (ReturnsAtOnce /\ last'.op = "save" /\ last'.res # ConflictMsg
           /\ Savable(last'.path)
           /\ (last'.target # <<>> => Savable(last'.target)))
          => last'.res = "success"
     /\ \A t \in Tasks :
          (tasks[t].op = "save" /\ Settles(t) /\ Savable(tasks[t].path)
             /\ (tasks[t].target # <<>> => Savable(tasks[t].target)))
            => (last'.res \in StorageErrors
                  \/ /\ last'.res = "success"
                     /\ fs'[pathToSegments(FinalPath(tasks[t]))].data
                          = opfs[pathToSegments(tasks[t].path)].data)]_vars

\* C9: a path is clean right after a successful save of it.
C9_SaveCleans ==
  [][\A t \in Tasks :
       (tasks[t].op = "save" /\ Settles(t) /\ last'.res = "success")
         => ~Has(opfs', pathToSegments(tasks[t].path))]_vars

\* C10: open always succeeds, registers the handle under its name and
\* leaves no staged node, whatever the draft store was.
C10_OpenClearsDrafts ==
  [][(ReturnsAtOnce /\ last'.op = "open")
       => /\ last'.res = "success"
          /\ last'.path \in DOMAIN registry'
          /\ registry'[last'.path].name = last'.path
          /\ DOMAIN opfs' \subseteq {<<>>}]_vars

\* C11: once a root other than the root of P has been opened, the next
\* meta(P) fails (P is unreachable) and the next read or readBinary of P
\* returns no staged content.
C11_OpenOtherRootDropsDraft ==
  [][(ReturnsAtOnce /\ last.op = "open"
        /\ last'.op \in {"meta", "read", "readBinary"}
        /\ last.path # Head(pathToSegments(last'.path)))
       => /\ (last'.op = "meta") => (last'.res # "success")
          /\ IsRead(last'.op) => ~(last'.res = "success" /\ last'.out.isDirty = "true")]_vars

\* C12: the registry holds one handle per key, the key of a handle being its
\* name or "untitled"; an open puts its handle under its key, replacing an
\* entry of that key and leaving every other entry alone, also when the open
\* fails; nothing else changes the registry; listHandleKeys returns exactly
\* the keys of the registry.
C12_RegistryKeepsRoots ==
  [][/\ \A k \in DOMAIN registry' : HandleKey(registry'[k]) = k
     /\ IF ReturnsAtOnce /\ last'.op = "open"
          THEN LET key == last'.path
               IN /\ DOMAIN registry' = DOMAIN registry \cup {key}
                  /\ registry'[key].kind = last'.out.kind
                  /\ (registry'[key].name = <<>>) <=> (key = Untitled)
                  /\ \A k \in DOMAIN registry \ {key} : registry'[k] = registry[k]
          ELSE registry' = registry
     /\ (ReturnsAtOnce /\ last'.op = "listHandleKeys")
          => (last'.res = "success" /\ last'.out.content = DOMAIN registry)]_vars

\* listHandleKeys returned the keys after an open replaced the handle named
\* "r" by another handle of that name; the entry of "f" is still there.
C12_Witness ==
  /\ last.op = "listHandleKeys"
  /\ last.out.content = DOMAIN registry
  /\ <<"r">> \in DOMAIN registry /\ registry[<<"r">>] = H_rf
  /\ <<"f">> \in DOMAIN registry

\* C13: close() without a path always succeeds and leaves no staged node,
\* whether the draft root held drafts, was empty or did not exist, and it
\* changes neither the external store nor the registry.
C13_CloseAllAlwaysClears ==
  [][(ReturnsAtOnce /\ last'.op = "close" /\ last'.path = <<>>)
       => /\ last'.res = "success"
          /\ DOMAIN opfs' \subseteq {<<>>}
          /\ fs' = fs
          /\ registry' = registry]_vars

\* The path resolves to a readable node of the external store.
Resolves(path) ==
  /\ Head(pathToSegments(path)) \in DOMAIN registry
  /\ Has(fs, pathToSegments(path))
  /\ perm[Head(pathToSegments(path))].read = "granted"

\* C14: meta(P) succeeds exactly for the paths that resolve in the external
\* store; it then reports isDirty true if a staged node (file or directory)
\* exists at P and false otherwise, and the name, kind and size of the
\* external node.
C14_MetaDirtyIffStaged ==
  [][(ReturnsAtOnce /\ last'.op = "meta")
       => LET node == pathToSegments(last'.path)
          IN /\ (last'.res = "success") <=> Resolves(last'.path)
             /\ (last'.res = "success")
                  => /\ (last'.out.isDirty = "true") <=> Has(opfs, node)
                     /\ (last'.out.isDirty = "false") <=> ~Has(opfs, node)
                     /\ last'.out.name = Last(node)
                     /\ last'.out.kind = fs[node].kind
                     /\ last'.out.size = Len(fs[node].data)]_vars

\* meta reported a dirty file whose staged copy has another size than the
\* external file.
C14_Witness ==
  /\ last.op = "meta" /\ last.res = "success" /\ last.out.isDirty = "true"
  /\ IsFile(opfs, pathToSegments(last.path))
  /\ IsFile(fs, pathToSegments(last.path))
  /\ last.out.size = Len(fs[pathToSegments(last.path)].data)
  /\ last.out.size # Len(opfs[pathToSegments(last.path)].data)

\* C15: list(D) of an external directory returns one entry per child with
\* fullPath D + "/" + name, every directory before every file and the names
\* of each group in order, and the sequence is the same for every order in
\* which the store enumerates the children.
C15_ListOrderIsDetermined ==
  [][(ReturnsAtOnce /\ last'.op = "list" /\ last'.res = "success")
       => LET entries == last'.out.content
              dir == pathToSegments(last'.path)
          IN /\ Len(entries) = Cardinality(Children(fs, dir))
             /\ {entries[i].name : i \in 1..Len(entries)} = Children(fs, dir)
             /\ \A i \in 1..Len(entries) :
                  /\ entries[i].fullPath = last'.path \o <<"/">> \o entries[i].name
                  /\ entries[i].kind = fs[Append(dir, entries[i].name)].kind
             /\ \A i, j \in 1..Len(entries) :
                  (i < j) => /\ ~(entries[i].kind = "file" /\ entries[j].kind = "directory")
                             /\ (entries[i].kind = entries[j].kind)
                                  => localeCompare(entries[i].name, entries[j].name) <= 0
             /\ \A order \in Enumerations(Children(fs, dir)) :
                  SortEntries(ListEntries(last'.path, dir, order), <<>>) = entries]_vars

TreeOps == {"list", "createFile", "createDirectory", "remove", "copy"}

\* The step is the call, a continuation or the settling of one of TreeOps.
TreeOpStep ==
  \/ ReturnsAtOnce /\ last'.op \in TreeOps
  \/ \E t \in Tasks : tasks'[t] # tasks[t] /\ (tasks[t].op \in TreeOps \/ tasks'[t].op \in TreeOps)

CreateOps == {"createFile", "createDirectory"}

NameErrors ==
  {"Name must be between 1 and 255 characters", "Name contains invalid characters",
   "Name is reserved", "Name cannot start or end with a dot"}

LastSegment(path) == Last(Split(path, "/"))

ForbiddenChars == {"<", ">", ":", "\"", "\\", "|", "?", "*"}

ControlChars == {"\t", "\n"}

\* The names the claim lists as failing validation.
FailsValidation(name) ==
  \/ Len(name) = 0
  \/ name = <<".">>
  \/ name = <<".", ".">>
  \/ Len(name) > 255
  \/ \E i \in 1..Len(name) : name[i] \in ForbiddenChars \cup ControlChars
  \/ Upper(name) \in ReservedNames
  \/ name[1] = "." \/ name[Len(name)] = "."

\* C17: a createFile or createDirectory call (not rejected by the lock)
\* whose last path segment fails validation returns a name error at once,
\* changes no store and leaves no lock entry behind; it never gets in
\* flight.  A call whose last segment passes validation gets no name error.
C17_InvalidNamesRejected ==
  [][/\ \A t \in Tasks :
          (tasks[t].pc = "idle" /\ tasks'[t].op \in CreateOps)
            => ~FailsValidation(LastSegment(tasks'[t].path))
     /\ (ReturnsAtOnce /\ last'.op \in CreateOps /\ last'.res # ConflictMsg)
          => /\ FailsValidation(LastSegment(last'.path))
             /\ last'.res \in NameErrors
             /\ fs' = fs /\ opfs' = opfs /\ registry' = registry
             /\ fileLocks' = fileLocks
             /\ last'.path \notin DOMAIN fileLocks'
     /\ \A t \in Tasks :
          (tasks[t].op \in CreateOps /\ Settles(t)) => last'.res \notin NameErrors]_vars

\* createFile refused a reserved device name written in lower case and
\* left no lock behind.
C17_Witness ==
  /\ last.op = "createFile" /\ last.res = "Name is reserved"
  /\ Upper(LastSegment(last.path)) # LastSegment(last.path)
  /\ last.path \notin DOMAIN fileLocks
  /\ fs = TreeFs

ExternalWriters ==
  {"write", "writeBinary", "save", "remove", "createFile", "createDirectory", "copy"}

RootOf(path) == Head(pathToSegments(path))

AllGranted == [n \in DOMAIN perm |-> Granted]

\* The call of the task needs a permission that is not granted: readwrite
\* on the root it writes to, and for copy also read on the root it reads.
LacksPermission(task) ==
  \/ task.op = "save" /\ perm[RootOf(FinalPath(task))].readwrite # "granted"
  \/ task.op = "copy" /\ (perm[RootOf(task.target)].readwrite # "granted"
                            \/ perm[RootOf(task.path)].read # "granted")
  \/ task.op \in ExternalWriters \ {"save", "copy"}
       /\ perm[RootOf(task.path)].readwrite # "granted"

\* C18: getHandle fails with "Permission denied" whenever the path resolves
\* and the permission for the requested mode is not granted; an operation
\* on the external store that lacks its permission fails and leaves the
\* external store unchanged; no step changes a permission.
C18_NotGrantedMeansDenied ==
  [][/\ perm' = perm
     /\ \A path \in Paths, mode \in {"read", "readwrite"} :
          LET resolved == getHandle(registry, fs, opfs, AllGranted, path, "fs", mode)
          IN (resolved.err = "" /\ perm[resolved.at[1]][mode] # "granted")
               => getHandle(registry, fs, opfs, perm, path, "fs", mode).err = "Permission denied"
     /\ \A t \in Tasks :
          (tasks'[t] # tasks[t] /\ tasks'[t].op \in ExternalWriters /\ LacksPermission(tasks'[t]))
            => fs' = fs
     /\ \A t \in Tasks :
          (tasks[t].op \in ExternalWriters /\ Settles(t) /\ LacksPermission(tasks[t]))
            => /\ fs' = fs
               /\ last'.res # "success"
               /\ (IsWrite(tasks[t].op) /\ Has(fs, pathToSegments(tasks[t].path)))
                    => last'.res = "Permission denied"
     /\ (ReturnsAtOnce /\ last'.op \in ExternalWriters) => fs' = fs]_vars

\* A write to an existing file of a root that is readable but not writable
\* was refused and the file is as before.
C18_Witness ==
  /\ last.op = "write" /\ last.res = "Permission denied"
  /\ perm[RootOf(last.path)] = ReadOnly
  /\ IsFile(fs, pathToSegments(last.path))
  /\ fs[pathToSegments(last.path)].data = InitData

\* C19: a copy(A, B) with A a readable file and B an existing file does not
\* fail when it opens its target, whatever the force option: it creates a
\* file in B's directory at a path other than B, leaving A and B as they
\* are, and when it then succeeds that file holds A's content and B is
\* still as it was.
C19_CopyRenamesOnCollision ==
  [][\A t \in Tasks :
       LET A == pathToSegments(tasks[t].path)
           B == pathToSegments(tasks[t].target)
       IN /\ (tasks[t].op = "copy" /\ tasks[t].pc = "copy_open" /\ tasks'[t] # tasks[t]
                /\ IsFile(fs, A) /\ IsFile(fs, B))
               => /\ tasks'[t].pc = "copy_commit"
                  /\ tasks'[t].h.at # B
                  /\ Pop(tasks'[t].h.at) = Pop(B)
                  /\ IsFile(fs', tasks'[t].h.at)
                  /\ fs'[A] = fs[A]
                  /\ fs'[B] = fs[B]
          /\ (tasks[t].op = "copy" /\ tasks[t].pc = "copy_commit" /\ Settles(t)
                /\ tasks[t].h.at # B /\ last'.res = "success")
               => /\ fs'[tasks[t].h.at].data = fs[A].data
                  /\ IsFile(fs, B) => fs'[B] = fs[B]]_vars

\* The node createFile / createDirectory makes.
CreatedNode(op) == IF op = "createFile" THEN FileNode(<<>>) ELSE DirNode

\* C20: createFile(P) / createDirectory(P) under an existing writable
\* directory creates the node when nothing exists at P, with or without
\* force; when a node of the same kind exists at P it succeeds and changes
\* nothing if force is set, and fails if force is not set.
C20_ForceOnlyAcceptsExisting ==
  [][\A t \in Tasks :
       LET node == pathToSegments(tasks[t].path)
           made == CreatedNode(tasks[t].op)
       IN (tasks[t].op \in {"createFile", "createDirectory"} /\ Settles(t)
             /\ Len(node) > 1 /\ IsDir(fs, Pop(node))
             /\ Head(node) \in DOMAIN registry
             /\ perm[Head(node)].readwrite = "granted")
            => /\ ~Has(fs, node) => (last'.res = "success" /\ fs' = Put(fs, node, made))
               /\ (Has(fs, node) /\ fs[node].kind = made.kind /\ tasks[t].force)
                    => (last'.res = "success" /\ fs' = fs)
               /\ (Has(fs, node) /\ fs[node].kind = made.kind /\ ~tasks[t].force)
                    => (last'.res # "success" /\ fs' = fs)]_vars

Lookups == {"list", "meta", "read", "readBinary"}

\* C21: a remove(P) of an external directory P below a root either deletes P
\* with every descendant and leaves every other external node as it was, or
\* (only while a writable stream is open below P) is refused and changes
\* nothing; list, meta and read of a path that no longer exists below a
\* registered root fail with "Invalid path".
C21_RemoveDeletesSubtree ==
  [][/\ \A t \in Tasks :
          LET P == pathToSegments(tasks[t].path)
          IN (tasks[t].op = "remove" /\ Settles(t) /\ Len(P) > 1 /\ IsDir(fs, P)
                /\ HasChildren(fs, P) /\ Head(P) \in DOMAIN registry)
               => IF last'.res = "success"
                    THEN /\ DOMAIN fs' = {q \in DOMAIN fs : ~IsPrefix(P, q)}
                         /\ \A q \in DOMAIN fs' : fs'[q] = fs[q]
                    ELSE /\ last'.res = "NoModificationAllowedError"
                         /\ WritableBelow("fs", P)
                         /\ fs' = fs
     /\ (ReturnsAtOnce /\ last'.op \in Lookups
           /\ Head(pathToSegments(last'.path)) \in DOMAIN registry
           /\ Has(fs, <<Head(pathToSegments(last'.path))>>)
           /\ ~Has(fs, pathToSegments(last'.path)))
          => last'.res = "Invalid path"]_vars

\* list(P) failed after remove(P) deleted the directory P, its files and
\* its subdirectory; the sibling of P is still there.
C21_Witness ==
  /\ last.op = "list" /\ last.path = P_rd /\ last.res = "Invalid path"
  /\ \A q \in DOMAIN fs : ~IsPrefix(pathToSegments(P_rd), q)
  /\ IsFile(fs, pathToSegments(P_ra))
  /\ fs[pathToSegments(P_ra)] = TreeFs[pathToSegments(P_ra)]

\* C22: the lock table holds exactly the keys of the calls in flight, each
\* owned by the call that installed it; an entry disappears only in the
\* step in which its owner settles, and then it does disappear; an entry is
\* never replaced; a call whose key is in the table is rejected and leaves
\* the table alone, a call whose key is not in the table is not rejected.
C22_LockLivesWithItsCall ==
  [][/\ DOMAIN fileLocks' = {LockKey(tasks'[t]) : t \in {u \in Tasks : tasks'[u].pc # "idle"}}
     /\ \A k \in DOMAIN fileLocks' :
          tasks'[fileLocks'[k]].pc # "idle" /\ LockKey(tasks'[fileLocks'[k]]) = k
     /\ \A k \in DOMAIN fileLocks :
          IF Settles(fileLocks[k])
            THEN k \notin DOMAIN fileLocks'
            ELSE k \in DOMAIN fileLocks' /\ fileLocks'[k] = fileLocks[k]
     /\ (ReturnsAtOnce /\ IsLockedCall(last'))
          => /\ (LastKey(last') \in DOMAIN fileLocks) <=> (last'.res = ConflictMsg)
             /\ fileLocks' = fileLocks
     /\ (\A t \in Tasks : tasks'[t].pc = "idle") => fileLocks' = [k \in {} |-> 0]]_vars

\* A call on a path settled with a failure, its entry is gone, and a later
\* call on the same path was accepted and now owns the entry.
C22_Witness ==
  /\ IsLockedCall(last) /\ last.res \notin {ConflictMsg, "success", "none"}
  /\ LastKey(last) \in DOMAIN fileLocks
  /\ tasks[fileLocks[LastKey(last)]].pc # "idle"
  /\ tasks[fileLocks[LastKey(last)]].op # last.op

InvalidPathErrors == {"Invalid path", "Root path is required", "Root handle not found"}

\* The segments of a path: one leading and one trailing slash are dropped
\* and the rest is split on "/".
SegmentsOf(path) ==
  LET s1 == IF Len(path) > 0 /\ path[1] = "/" THEN Tail(path) ELSE path
      s2 == IF Len(s1) > 0 /\ s1[Len(s1)] = "/" THEN Pop(s1) ELSE s1
  IN Split(s2, "/")

\* The node the segments lead to: in the external store below the handle
\* registered under the first segment, in the draft store below its root.
\* <<"none">> when the root segment is empty or not registered.
NodeAt(segs, type) ==
  IF Head(segs) = <<>> THEN <<"none">>
  ELSE IF type = "opfs" THEN segs
  ELSE IF Head(segs) \in DOMAIN registry THEN <<registry[Head(segs)].name>> \o Tail(segs)
  ELSE <<"none">>

\* C23: getHandle(path) returns the node the segments of the path lead to
\* when every segment names a directory or a file of the node before it,
\* and fails with an invalid-path error otherwise: empty or unknown root
\* segment, a segment that names nothing, a segment after a file.
C23_ResolveWalksSegments ==
  [][(ReturnsAtOnce /\ last'.op = "getHandle")
       => LET type == last'.out.name
              store == IF type = "opfs" THEN opfs' ELSE fs
              segs == SegmentsOf(last'.path)
              node == NodeAt(segs, type)
              exists == /\ node # <<"none">>
                        /\ Has(store, node)
                        /\ \A i \in 1..Len(segs) : NameOk(segs[i])
          IN IF exists
               THEN /\ last'.res = "success"
                    /\ last'.out.content = node
                    /\ last'.out.kind = store[node].kind
               ELSE last'.res \in InvalidPathErrors]_vars

PureLookups == Lookups \cup {"getHandle"}

\* C24: a call of getHandle, read, readBinary, meta or list leaves the draft
\* store (the existence of its root directory included), the external store
\* and the registry as they were.
C24_LookupsArePure ==
  [][(ReturnsAtOnce /\ last'.op \in PureLookups)
       => (opfs' = opfs /\ fs' = fs /\ registry' = registry)]_vars

\* The external node a path names; every root is registered under its own
\* name.
SourceNode(path) == pathToSegments(path)

\* The external nodes at and below the node a path names.
Subtree(store, path) ==
  {q \in DOMAIN store : IsPrefix(SourceNode(path), q)}

ByMove(t) == tasks[t].via = "moveWebFsEntry"

\* C25: move always fails with "Feature Unimplemented" and changes nothing.
\* moveWebFsEntry with equal paths returns success and changes nothing;
\* otherwise its copy phase leaves the source and everything below it as it
\* was, it goes on to the removal only when its copy settled with success
\* and the target holds the bytes of the source, and a node disappears from
\* the external store only in the removal of a move whose source it is or
\* lies below.
C25_MoveCopiesThenRemoves ==
  [][/\ (ReturnsAtOnce /\ last'.op = "move")
          => /\ last'.res = "Feature Unimplemented"
             /\ UNCHANGED <<registry, fs, opfs, fileLocks>>
     /\ (ReturnsAtOnce /\ last'.op = "moveWebFsEntry")
          => /\ last'.path = last'.target
             /\ last'.res = "success"
             /\ UNCHANGED <<registry, fs, opfs, fileLocks>>
     /\ \A t \in Tasks :
          /\ (ByMove(t) /\ tasks[t].op = "copy" /\ tasks'[t] # tasks[t])
               => /\ \A q \in Subtree(fs, tasks[t].path) :
                       q \in DOMAIN fs' /\ fs'[q] = fs[q]
                  /\ tasks'[t].pc \in {"copy_commit", "move_remove", "idle"}
          /\ (tasks'[t].pc = "move_remove" /\ tasks[t].pc # "move_remove")
               => /\ ByMove(t) /\ tasks[t].op = "copy"
                  /\ last'.op = "copy" /\ last'.res = "success"
                  /\ tasks'[t].path = tasks[t].path
                  /\ IsFile(fs', tasks[t].h.at)
                  /\ fs'[tasks[t].h.at].data = fs'[SourceNode(tasks[t].path)].data
          /\ (tasks'[t].op = "remove" /\ tasks[t].op # "remove")
               => tasks[t].pc = "move_remove" /\ tasks'[t].path = tasks[t].path
     /\ \A q \in DOMAIN fs \ DOMAIN fs' :
          \E t \in Tasks :
            /\ ByMove(t) /\ tasks[t].op = "remove"
            /\ q \in Subtree(fs, tasks[t].path)]_vars

\* A move of r/a to r/n ran to its end: r/n is there and r/a is gone.
C25_Witness ==
  /\ last.op = "remove" /\ last.res = "success" /\ last.path = P_ra
  /\ ~Has(fs, SourceNode(P_ra))
  /\ IsFile(fs, SourceNode(P_rn))

\* targetPath, else the source path.
FinalOf(call) == IF call.target # <<>> THEN call.target ELSE call.path

\* The validator refuses the final path of the call.
RefusedFinal(call) == validateDirectoryName(FinalOf(call)) # ""

SaveRefused(call) ==
  /\ last'.res = validateDirectoryName(FinalOf(call))
  /\ fs' = fs
  /\ opfs' = opfs
  /\ call.path \notin DOMAIN fileLocks'

\* C26 as stated: a save that took the lock and whose final path the
\* validator refuses (any path with a "/", an empty one, a reserved name, a
\* name ending in a dot) fails with the validator's error before any handle
\* is resolved, changes neither store and leaves no lock on the source path.
C26_SaveValidatesFinalPath ==
  [][/\ (ReturnsAtOnce /\ last'.op = "save" /\ last'.res # ConflictMsg /\ RefusedFinal(last'))
          => SaveRefused(last')
     /\ \A t \in Tasks :
          (tasks'[t].op = "save" /\ tasks[t].op # "save") => ~RefusedFinal(tasks'[t])]_vars

\* C26 amended: the same for every final path that is not empty; an empty
\* final path is not validated, the call goes on to resolve its handles.
C26_SaveValidatesNonEmptyFinalPath ==
  [][/\ (/\ ReturnsAtOnce /\ last'.op = "save" /\ last'.res # ConflictMsg
         /\ FinalOf(last') # <<>> /\ RefusedFinal(last'))
          => SaveRefused(last')
     /\ \A t \in Tasks :
          (tasks'[t].op = "save" /\ tasks[t].op # "save")
            => (FinalOf(tasks'[t]) = <<>> \/ ~RefusedFinal(tasks'[t]))
     /\ \A t \in Tasks :
          (tasks[t].op = "save" /\ tasks'[t] # tasks[t] /\ FinalOf(tasks[t]) = <<>>)
            => (last'.res = "Root path is required" /\ fs' = fs /\ opfs' = opfs)]_vars

\* A save of the staged r/a onto itself was refused for the slash in its
\* final path; the draft is still staged and the lock is free.
C26_Witness ==
  /\ last.op = "save" /\ last.path = P_ra /\ last.target = <<>>
  /\ last.res = "Name contains invalid characters"
  /\ IsFile(opfs, pathToSegments(P_ra))
  /\ P_ra \notin DOMAIN fileLocks

\* C27: an open(handle) that fails leaves the registry as it was before the
\* call.
C27_FailedOpenKeepsRegistry ==
  [][(ReturnsAtOnce /\ last'.op = "open" /\ last'.res # "success")
       => registry' = registry]_vars

\* A call that clears the drafts: close() without a path, or open().
IsClear(call) == call.op = "open" \/ (call.op = "close" /\ call.path = <<>>)

StagedBelow(store, path) ==
  {q \in FilesOf(store) : IsPrefix(pathToSegments(path), q) /\ q # pathToSegments(path)}

\* C29: meta reports a directory dirty only while a file below it has a
\* staged copy.
C29_DirtyDirectoryHasDirtyFile ==
  [][(/\ ReturnsAtOnce /\ last'.op = "meta" /\ last'.res = "success"
      /\ last'.out.kind = "directory" /\ last'.out.isDirty = "true")
       => StagedBelow(opfs', last'.path) # {}]_vars

\* The open tabs are well formed: there is one, no two have the same path,
\* and the active file is the path of one of them.
TabsOk(state) ==
  /\ Len(state.openFiles) > 0
  /\ \A i, j \in 1..Len(state.openFiles) :
       state.openFiles[i].path = state.openFiles[j].path => i = j
  /\ \E i \in 1..Len(state.openFiles) : state.openFiles[i].path = state.activeFile

Remaining(files, path) == SelectSeq(files, LAMBDA f : f.path # path)

\* C30: from the initial state, openFile, closeFile and in-range
\* reorderFiles keep the open tabs well formed; openFile makes the path of
\* its payload the active file; closeFile of the active file makes the last
\* of the files that remain active, or the untitled file it creates when
\* none remains.
C30_OpenTabsWellFormed ==
  [][/\ TabsOk(interface) /\ TabsOk(interface')
     /\ last'.op = "openFile" => interface'.activeFile = last'.path
     /\ (last'.op = "closeFile" /\ interface.activeFile = last'.path)
          => LET remaining == Remaining(interface.openFiles, last'.path)
             IN IF Len(remaining) > 0
                  THEN /\ interface'.openFiles = remaining
                       /\ interface'.activeFile = remaining[Len(remaining)].path
                  ELSE /\ Len(interface'.openFiles) = 1
                       /\ interface'.openFiles[1].name = "Untitled"
                       /\ interface'.openFiles[1].path \in {UntitledPath(r) : r \in Suffixes}
                       /\ interface'.activeFile = interface'.openFiles[1].path]_vars

\* The only open file was closed: a fresh untitled file is the one tab and
\* the active file.
C30_Witness ==
  /\ last.op = "closeFile" /\ last.path = P_f
  /\ interface.openFiles = <<OpenFile("Untitled", UntitledPath(<<"1">>), "absent")>>
  /\ interface.activeFile = UntitledPath(<<"1">>)

====
